---- MODULE Spec2Model ----
(***************************************************************************)
(* Property definitions of src/llvm/include/llvm/TableGen/SetTheory.td     *)
(* (the Properties.td part, lines 29-818).                                  *)
(*                                                                          *)
(* Two layers are modelled.                                                 *)
(*  - The schema-compile-time layer: a property definition is a TableGen    *)
(*    expression (I32Prop, OptionalProp<p, bit>, ArrayProp<elem>, ...);     *)
(*    Build evaluates it to the record of fields the class bodies compute. *)
(*    A code fragment is a term <<tag, parts...>>: the tag names the code  *)
(*    template in the source, the parts are what the template splices in   *)
(*    with # and !subst (the wrapped property's fragment, its storage type, *)
(*    its storage declaration).                                            *)
(*  - The run-time layer: what a generated fragment does when it runs on a *)
(*    storage value, an attribute, a bytecode stream or a printer.          *)
(***************************************************************************)
EXTENDS Integers, Sequences, FiniteSets, TLC

VARIABLES prop, status, storage, op, attr, bytes, pos, printed, result, prev, tokens,
          completed_threads_array, successful_threads_array, threads, main, iter,
          max_time_to_wait, total_completed_threads, successful_threads, stdout,
          exit_status

\* The state of the multi-debugger test driver (multi-process-driver.cpp).
driver == <<completed_threads_array, successful_threads_array, threads, main, iter,
            max_time_to_wait, total_completed_threads, successful_threads, stdout,
            exit_status>>

\* The state of the property under study (Properties.td).
property == <<prop, status, storage, op, attr, bytes, pos, printed, result, prev, tokens>>

vars == <<prop, status, storage, op, attr, bytes, pos, printed, result, prev, tokens,
          completed_threads_array, successful_threads_array, threads, main, iter,
          max_time_to_wait, total_completed_threads, successful_threads, stdout,
          exit_status>>

\* The test driver is not running.
NoDriver ==
  /\ completed_threads_array = <<>>
  /\ successful_threads_array = <<>>
  /\ threads = <<>>
  /\ main = "not started"
  /\ iter = 0
  /\ max_time_to_wait = 0
  /\ total_completed_threads = 0
  /\ successful_threads = 0
  /\ stdout = <<>>
  /\ exit_status = -1

(***************************************************************************)
(* Bounds                                                                   *)
(***************************************************************************)
\* Longest array held in storage, and longest attribute list fed to a conversion.
MaxLen == 3
\* Width in bits standing for int32_t; 2^32 is beyond TLC's integers, so widths are scaled.
Bits32 == 3
\* Width in bits standing for int64_t and for the uint64_t of readVarInt/writeVarInt.
Bits64 == 4
\* Longest bracketed list handed to a parser.
MaxParsed == 2

(***************************************************************************)
(* Types: <<name>> or <<template, argument>>                                *)
(***************************************************************************)
Optional(T) == <<"std::optional", T>>
SmallVector(T) == <<"::llvm::SmallVector", T>>
ArrayRef(T) == <<"::llvm::ArrayRef", T>>

Pow2(n) == 2 ^ n

\* Width of a C++ integer type.
Bits(T) == IF T[1] = "int32_t" THEN Bits32 ELSE Bits64

IsIntType(T) == T[1] \in {"int32_t", "int64_t"}
IsScalarType(T) == T[1] \in {"int32_t", "int64_t", "bool"}

\* Representable values of a signed integer type.
IntRange(T) == (0 - Pow2(Bits(T) - 1)) .. (Pow2(Bits(T) - 1) - 1)

(***************************************************************************)
(* Predicates (mlir/IR/Constraints.td terms)                                *)
(***************************************************************************)
TruePred == <<"TruePred">>
CPred(code) == <<"CPred", code>>
And(preds) == <<"And", preds>>
\* Or<[...]> without its first operand.
Or_dropsFirst(preds) == <<"Or", Tail(preds)>>
Or(preds) == <<"Or", preds>>
Concat(prefix, pred, suffix) == <<"Concat", prefix, pred, suffix>>
SubstLeaves(pat, repl, pred) == <<"SubstLeaves", pat, repl, pred>>

(***************************************************************************)
(* class Property                                                           *)
(***************************************************************************)
\* The empty code string "".
NoCode == <<>>
\* Property baseProperty = ?
Unset == <<>>

Property(storageTypeParam, desc, interfaceTypeParam) ==
  [ summary |-> desc,
    description |-> "",
    storageType |-> storageTypeParam,
    interfaceType |-> interfaceTypeParam,
    predicate |-> TruePred,
    convertFromStorage |-> <<"$_storage">>,
    assignToStorage |-> <<"$_storage = $_value">>,
    convertToAttribute |-> <<"return convertToAttribute($_ctxt, $_storage)">>,
    convertFromAttribute |-> <<"return convertFromAttribute($_storage, $_attr, $_diag)">>,
    hashProperty |-> NoCode,
    parser |-> <<"FieldParser::parse", storageTypeParam>>,
    optionalParser |-> NoCode,
    printer |-> <<"$_printer << $_storage">>,
    writeToMlirBytecode |-> <<"writeToMlirBytecode($_writer, $_storage)">>,
    readFromMlirBytecode |-> <<"readFromMlirBytecode($_reader, $_storage)">>,
    baseProperty |-> Unset,
    defaultValue |-> "",
    storageTypeValueOverride |-> "" ]

(***************************************************************************)
(* Primitive property kinds                                                 *)
(***************************************************************************)
IntProp(storageTypeParam, desc) ==
  [ Property(storageTypeParam, desc, storageTypeParam) EXCEPT
      !.summary = IF desc = "" THEN storageTypeParam[1] ELSE desc,
      !.optionalParser = <<"IntProp.optionalParser">>,
      !.printer = <<"IntProp.printer">>,
      !.writeToMlirBytecode = <<"IntProp.writeToMlirBytecode">>,
      !.readFromMlirBytecode = <<"IntProp.readFromMlirBytecode">> ]

I32Prop == IntProp(<<"int32_t">>, "")
I64Prop == IntProp(<<"int64_t">>, "")

StringProp ==
  [ Property(<<"std::string">>, "string", <<"::llvm::StringRef">>) EXCEPT
      !.convertFromStorage = <<"::llvm::StringRef{$_storage}">>,
      !.assignToStorage = <<"$_storage = $_value.str()">>,
      !.optionalParser = <<"StringProp.optionalParser">>,
      !.printer = <<"StringProp.printer">>,
      !.readFromMlirBytecode = <<"StringProp.readFromMlirBytecode">>,
      !.writeToMlirBytecode = <<"StringProp.writeToMlirBytecode">> ]

BoolProp ==
  [ IntProp(<<"bool">>, "boolean") EXCEPT
      !.printer = <<"BoolProp.printer">>,
      !.readFromMlirBytecode = <<"BoolProp.readFromMlirBytecode">>,
      !.writeToMlirBytecode = <<"BoolProp.writeToMlirBytecode">> ]

UnitProp ==
  [ Property(<<"bool">>, "unit property", <<"bool">>) EXCEPT
      !.summary = "unit property",
      !.description = "A property whose presence or abscence is used as a flag.",
      !.defaultValue = "false",
      !.convertToAttribute = <<"UnitProp.convertToAttribute">>,
      !.convertFromAttribute = <<"UnitProp.convertFromAttribute">>,
      !.parser = <<"UnitProp.parser">>,
      !.optionalParser = <<"UnitProp.optionalParser">>,
      !.printer = <<"UnitProp.printer">>,
      !.writeToMlirBytecode = <<"UnitProp.writeToMlirBytecode">>,
      !.readFromMlirBytecode = <<"UnitProp.readFromMlirBytecode">> ]

(***************************************************************************)
(* Property field overwrites                                                *)
(***************************************************************************)
\* DefaultValuedProp without `let optionalParser = p.optionalParser`.
DefaultValuedProp_dropsOptionalParser(p, default, storageDefault) ==
  [ Property(p.storageType, p.summary, p.interfaceType) EXCEPT
      !.defaultValue = default,
      !.storageTypeValueOverride = storageDefault,
      !.baseProperty = p,
      !.summary = p.summary,
      !.description = p.description,
      !.storageType = p.storageType,
      !.interfaceType = p.interfaceType,
      !.convertFromStorage = p.convertFromStorage,
      !.assignToStorage = p.assignToStorage,
      !.convertToAttribute = p.convertToAttribute,
      !.convertFromAttribute = p.convertFromAttribute,
      !.predicate = p.predicate,
      !.hashProperty = p.hashProperty,
      !.parser = p.parser,
      !.printer = p.printer,
      !.readFromMlirBytecode = p.readFromMlirBytecode,
      !.writeToMlirBytecode = p.writeToMlirBytecode ]

DefaultValuedProp(p, default, storageDefault) ==
  [ Property(p.storageType, p.summary, p.interfaceType) EXCEPT
      !.defaultValue = default,
      !.storageTypeValueOverride = storageDefault,
      !.baseProperty = p,
      !.summary = p.summary,
      !.description = p.description,
      !.storageType = p.storageType,
      !.interfaceType = p.interfaceType,
      !.convertFromStorage = p.convertFromStorage,
      !.assignToStorage = p.assignToStorage,
      !.convertToAttribute = p.convertToAttribute,
      !.convertFromAttribute = p.convertFromAttribute,
      !.predicate = p.predicate,
      !.hashProperty = p.hashProperty,
      !.parser = p.parser,
      !.optionalParser = p.optionalParser,
      !.printer = p.printer,
      !.readFromMlirBytecode = p.readFromMlirBytecode,
      !.writeToMlirBytecode = p.writeToMlirBytecode ]

\* ConfinedProp with `let predicate = pred`: the predicate of p is not kept.
ConfinedProp_dropsInner(p, pred, newSummary) ==
  [ DefaultValuedProp(p, p.defaultValue, p.storageTypeValueOverride) EXCEPT
      !.summary = IF newSummary = "" THEN p.summary ELSE newSummary,
      !.predicate = pred ]

ConfinedProp(p, pred, newSummary) ==
  [ Property(p.storageType, IF newSummary = "" THEN p.summary ELSE newSummary,
             p.interfaceType) EXCEPT
      !.predicate = IF p.predicate # TruePred THEN And(<<p.predicate, pred>>) ELSE pred,
      !.baseProperty = p,
      !.description = p.description,
      !.storageType = p.storageType,
      !.interfaceType = p.interfaceType,
      !.convertFromStorage = p.convertFromStorage,
      !.assignToStorage = p.assignToStorage,
      !.convertToAttribute = p.convertToAttribute,
      !.convertFromAttribute = p.convertFromAttribute,
      !.hashProperty = p.hashProperty,
      !.parser = p.parser,
      !.optionalParser = p.optionalParser,
      !.printer = p.printer,
      !.readFromMlirBytecode = p.readFromMlirBytecode,
      !.writeToMlirBytecode = p.writeToMlirBytecode,
      !.defaultValue = p.defaultValue,
      !.storageTypeValueOverride = p.storageTypeValueOverride ]

ConstantProp(p, val) ==
  LET c == ConfinedProp(p, CPred("$_self == " \o val),
                        "constant '" \o p.summary \o "': " \o val)
  IN [f \in DOMAIN c \cup {"value"} |-> IF f = "value" THEN val ELSE c[f]]

(***************************************************************************)
(* Primitive property combinators                                           *)
(***************************************************************************)
\* _makePropStorage taking the default value before the storage initializer.
makePropStorage_defaultFirst(p, name) ==
  [ type |-> p.storageType,
    name |-> name,
    init |-> IF p.defaultValue # "" THEN p.defaultValue
             ELSE IF p.storageTypeValueOverride # "" THEN p.storageTypeValueOverride
             ELSE "" ]

\* The declaration `storageType name [= initializer];`.
\* initializer "" stands for a declaration without initializer.
makePropStorage(p, name) ==
  [ type |-> p.storageType,
    name |-> name,
    init |-> IF p.storageTypeValueOverride # "" THEN p.storageTypeValueOverride
             ELSE IF p.defaultValue # "" THEN p.defaultValue
             ELSE "" ]

\* _makeStorageWrapperPred wrapping TruePred instead of wrappedProp.predicate.
makeStorageWrapperPred_ignoresPredicate(wrappedProp) ==
  <<"StorageWrapperPred", wrappedProp.storageType, wrappedProp.interfaceType,
    SubstLeaves("$_self", "baseIface", TruePred),
    wrappedProp.convertFromStorage>>

makeStorageWrapperPred(wrappedProp) ==
  <<"StorageWrapperPred", wrappedProp.storageType, wrappedProp.interfaceType,
    SubstLeaves("$_self", "baseIface", wrappedProp.predicate),
    wrappedProp.convertFromStorage>>

ArrayProp(elem, newSummary) ==
  LET theParserBegin == <<makePropStorage(elem, "elemVal"), elem.parser>> IN
  [ Property(SmallVector(elem.storageType),
             IF newSummary = "" THEN "array of " \o elem.summary ELSE newSummary,
             ArrayRef(elem.storageType)) EXCEPT
      !.convertFromStorage = <<"ArrayProp.convertFromStorage">>,
      !.assignToStorage = <<"ArrayProp.assignToStorage">>,
      !.convertFromAttribute =
          <<"ArrayProp.convertFromAttribute", makePropStorage(elem, "elemVal"),
            elem.convertFromAttribute>>,
      !.convertToAttribute = <<"ArrayProp.convertToAttribute", elem.convertToAttribute>>,
      !.predicate = IF elem.predicate = TruePred THEN TruePred
                    ELSE Concat("::llvm::all_of($_self, ", makeStorageWrapperPred(elem), ")"),
      !.parser = <<"ArrayProp.parser", theParserBegin>>,
      !.optionalParser = <<"ArrayProp.optionalParser", theParserBegin>>,
      !.printer = <<"ArrayProp.printer", elem.printer>>,
      !.readFromMlirBytecode =
          <<"ArrayProp.readFromMlirBytecode", makePropStorage(elem, "elemVal"),
            elem.readFromMlirBytecode>>,
      !.writeToMlirBytecode = <<"ArrayProp.writeToMlirBytecode", elem.writeToMlirBytecode>>,
      !.hashProperty = IF elem.hashProperty = NoCode
                       THEN <<"ArrayProp.hashProperty.ArrayRef">>
                       ELSE <<"ArrayProp.hashProperty.mapped", elem.hashProperty>> ]

\* delegatesParsing without the canDelegateParsing argument.
delegatesParsing_ignoresBit(p, canDelegateParsing) ==
  /\ p.defaultValue = ""
  /\ p.optionalParser # NoCode

\* defvar delegatesParsing
delegatesParsing(p, canDelegateParsing) ==
  /\ p.defaultValue = ""
  /\ p.optionalParser # NoCode
  /\ canDelegateParsing

\* defvar hasTrivialStorage
hasTrivialStorage(p) ==
  /\ p.convertFromStorage = <<"$_storage">>
  /\ p.assignToStorage = <<"$_storage = $_value">>
  /\ p.storageType = p.interfaceType

OptionalProp(p, canDelegateParsing) ==
  LET presentVal == makePropStorage(p, "presentVal")
      delegatedParserBegin == <<presentVal, p.optionalParser>>
      delegatedParser == <<"OptionalProp.delegatedParser", delegatedParserBegin>>
      delegatedOptionalParser ==
        <<"OptionalProp.delegatedOptionalParser", delegatedParserBegin>>
      generalParserEnd == <<presentVal, p.parser>>
      generalParser == <<"OptionalProp.generalParser", generalParserEnd>>
      generalOptionalParser == <<"OptionalProp.generalOptionalParser", generalParserEnd>>
      delegatedPrinter == <<"OptionalProp.delegatedPrinter", p.printer>>
      generalPrinter == <<"OptionalProp.generalPrinter", p.printer>>
      delegates == delegatesParsing(p, canDelegateParsing)
  IN
  [ Property(Optional(p.storageType), "optional " \o p.summary,
             Optional(p.interfaceType)) EXCEPT
      !.defaultValue = "std::nullopt",
      !.convertFromStorage =
          IF hasTrivialStorage(p) THEN p.convertFromStorage
          ELSE <<"OptionalProp.convertFromStorage", p.convertFromStorage>>,
      !.assignToStorage =
          IF hasTrivialStorage(p) THEN p.assignToStorage
          ELSE <<"OptionalProp.assignToStorage", presentVal, p.assignToStorage>>,
      !.convertFromAttribute =
          <<"OptionalProp.convertFromAttribute", presentVal, p.convertFromAttribute>>,
      !.convertToAttribute = <<"OptionalProp.convertToAttribute", p.convertToAttribute>>,
      !.predicate =
          IF p.predicate # TruePred
          THEN Or(<<CPred("!$_self.has_value()"),
                    SubstLeaves("$_self", "(*($_self))", p.predicate)>>)
          ELSE TruePred,
      !.parser = IF delegates THEN delegatedParser ELSE generalParser,
      !.optionalParser =
          IF delegates THEN delegatedOptionalParser ELSE generalOptionalParser,
      !.printer = IF delegates THEN delegatedPrinter ELSE generalPrinter,
      !.readFromMlirBytecode =
          <<"OptionalProp.readFromMlirBytecode", presentVal, p.readFromMlirBytecode>>,
      !.writeToMlirBytecode =
          <<"OptionalProp.writeToMlirBytecode", p.writeToMlirBytecode>>,
      !.hashProperty =
          IF p.hashProperty = NoCode THEN p.hashProperty
          ELSE <<"OptionalProp.hashProperty", p.hashProperty>> ]

\* The assert left out.
OptionalPropAssert_off(rec, p, canDelegateParsing) == TRUE

\* The assert that closes class OptionalProp, on the finished record `rec`
\* (fields as they stand after any `let` of the definition).
OptionalPropAssert(rec, p, canDelegateParsing) ==
  \/ ~delegatesParsing(p, canDelegateParsing)
  \/ rec.defaultValue = "std::nullopt"

(***************************************************************************)
(* Property definitions under study, as TableGen expressions                *)
(***************************************************************************)
\* <<"OptionalProp", p, bit>> is OptionalProp<p, bit>;
\* <<"def OptionalProp", p, bit, v>> is def : OptionalProp<p, bit> { let defaultValue = v; }
RECURSIVE Build(_)
Build(e) ==
  CASE e[1] = "I32Prop" -> I32Prop
    [] e[1] = "I64Prop" -> I64Prop
    [] e[1] = "BoolProp" -> BoolProp
    [] e[1] = "UnitProp" -> UnitProp
    [] e[1] = "StringProp" -> StringProp
    [] e[1] = "DefaultValuedProp" -> DefaultValuedProp(Build(e[2]), e[3], e[4])
    [] e[1] = "ConfinedProp" -> ConfinedProp(Build(e[2]), e[3], e[4])
    [] e[1] = "ConstantProp" -> ConstantProp(Build(e[2]), e[3])
    [] e[1] = "ArrayProp" -> ArrayProp(Build(e[2]), "")
    [] e[1] = "OptionalProp" -> OptionalProp(Build(e[2]), e[3])
    [] e[1] = "def OptionalProp" ->
         [OptionalProp(Build(e[2]), e[3]) EXCEPT !.defaultValue = e[4]]

\* Every assert met while the definition and the definitions it uses are built.
RECURSIVE AssertsHold(_)
AssertsHold(e) ==
  CASE e[1] \in {"I32Prop", "I64Prop", "BoolProp", "UnitProp", "StringProp"} -> TRUE
    [] e[1] \in {"OptionalProp", "def OptionalProp"} ->
         /\ AssertsHold(e[2])
         /\ OptionalPropAssert(Build(e), Build(e[2]), e[3])
    [] OTHER -> AssertsHold(e[2])

eI32 == <<"I32Prop">>
eI64 == <<"I64Prop">>
eBool == <<"BoolProp">>
eUnit == <<"UnitProp">>
eString == <<"StringProp">>
eOptI32 == <<"OptionalProp", eI32, TRUE>>
eArrOptI32 == <<"ArrayProp", eOptI32>>

Schema ==
  { eI32, eI64, eBool, eUnit, eString,
    <<"DefaultValuedProp", eI32, "0", "">>,
    <<"DefaultValuedProp", eI32, "", "">>,
    <<"ConfinedProp", eI32, CPred("$_self > 0"), "">>,
    eOptI32,
    <<"OptionalProp", eI32, FALSE>>,
    <<"OptionalProp", eI64, TRUE>>,
    <<"OptionalProp", eBool, TRUE>>,
    <<"OptionalProp", eUnit, TRUE>>,
    <<"OptionalProp", eString, TRUE>>,
    <<"OptionalProp", <<"DefaultValuedProp", eI32, "0", "">>, TRUE>>,
    <<"OptionalProp", <<"DefaultValuedProp", eI32, "", "">>, TRUE>>,
    <<"OptionalProp", eOptI32, TRUE>>,
    <<"OptionalProp", <<"ArrayProp", eI32>>, TRUE>>,
    <<"def OptionalProp", eI32, TRUE, "1">>,
    <<"def OptionalProp", eI32, FALSE, "1">>,
    <<"def OptionalProp", eUnit, TRUE, "true">>,
    <<"ArrayProp", eI32>>,
    <<"ArrayProp", eUnit>>,
    eArrOptI32,
    <<"ArrayProp", <<"OptionalProp", eUnit, TRUE>>>>,
    <<"ArrayProp", <<"def OptionalProp", eI32, TRUE, "1">>>> }

\* Predicates handed to ConfinedProp.
PositivePred == CPred("$_self > 0")
BelowFivePred == CPred("$_self < 5")

eConfI64 == <<"ConfinedProp", eI64, PositivePred, "">>
\* I32Prop with default 0 and storage initializer 1.
eDefI32 == <<"DefaultValuedProp", eI32, "0", "1">>
eOptConfI64 == <<"OptionalProp", eConfI64, TRUE>>

\* Definitions built with the modifiers, and containers of them.
ModifierSchema ==
  { eConfI64,
    <<"ConfinedProp", eI64, BelowFivePred, "">>,
    <<"ConfinedProp", eConfI64, BelowFivePred, "">>,
    <<"ConfinedProp", <<"ConfinedProp", eI64, BelowFivePred, "">>, PositivePred, "">>,
    <<"ConfinedProp", eString, CPred("!$_self.empty()"), "non-empty string">>,
    <<"ConfinedProp", eOptI32, CPred("$_self.has_value()"), "">>,
    <<"ConfinedProp", eDefI32, PositivePred, "">>,
    <<"ConstantProp", eI64, "5">>,
    <<"ConstantProp", eConfI64, "5">>,
    <<"ConstantProp", eConfI64, "0">>,
    eDefI32,
    <<"DefaultValuedProp", eDefI32, "1", "">>,
    <<"DefaultValuedProp", eDefI32, "1", "-1">>,
    <<"DefaultValuedProp", <<"ConfinedProp", eDefI32, PositivePred, "">>, "1", "">>,
    <<"DefaultValuedProp", eConfI64, "1", "">>,
    <<"DefaultValuedProp", eString, "", "">>,
    <<"DefaultValuedProp", eUnit, "true", "">>,
    <<"DefaultValuedProp", <<"ArrayProp", eI32>>, "", "">>,
    <<"DefaultValuedProp", <<"OptionalProp", <<"ArrayProp", eI32>>, TRUE>>, "", "">>,
    <<"ArrayProp", eConfI64>>,
    <<"ArrayProp", eOptConfI64>>,
    <<"ArrayProp", <<"ConfinedProp", eString, CPred("!$_self.empty()"), "">>>>,
    eOptConfI64,
    <<"OptionalProp", eOptConfI64, TRUE>>,
    <<"OptionalProp", <<"ConstantProp", eI64, "5">>, TRUE>>,
    <<"ArrayProp", eDefI32>>,
    <<"OptionalProp", eDefI32, TRUE>>,
    <<"OptionalProp", <<"OptionalProp", eString, TRUE>>, TRUE>> }

Definitions == Schema \cup ModifierSchema

\* The record of the definition under study.
Desc == Build(prop)

IsOptionalDef(e) == e[1] \in {"OptionalProp", "def OptionalProp"}
IsArrayDef(e) == e[1] = "ArrayProp"

(***************************************************************************)
(* Values                                                                   *)
(***************************************************************************)
\* Integers stored in the elements of containers.
IntSamples == {-1, 0, 3}
StringSamples == {"", "a"}

SeqsUpTo(n, S) == UNION { [1..k -> S] : k \in 0..n }

\* Storage values of a definition; nested /= 0 inside a container.
RECURSIVE Values(_, _)
Values(e, nested) ==
  CASE e[1] \in {"I32Prop", "I64Prop"} ->
         IF nested = 0 THEN IntRange(Build(e).storageType)
         ELSE IntSamples \cap IntRange(Build(e).storageType)
    [] e[1] \in {"BoolProp", "UnitProp"} -> BOOLEAN
    [] e[1] = "StringProp" -> StringSamples
    [] e[1] = "ArrayProp" -> SeqsUpTo(MaxLen, Values(e[2], 1))
    [] IsOptionalDef(e) -> {<<>>} \cup { <<v>> : v \in Values(e[2], 1) }
    [] OTHER -> Values(e[2], nested)

\* An indeterminate value: what a scalar declared without initializer holds.
Junk == { [int |-> 0, bool |-> FALSE], [int |-> -1, bool |-> TRUE] }

\* Value of the C++ initializer expression `expr` for a variable of type T.
RECURSIVE EvalInit(_, _)
EvalInit(T, expr) ==
  CASE expr = "std::nullopt" -> <<>>
    [] T[1] = "std::optional" -> <<EvalInit(T[2], expr)>>
    [] expr = "false" -> FALSE
    [] expr = "true" -> TRUE
    [] expr = "0" -> 0
    [] expr = "1" -> 1
    [] expr = "-1" -> -1
    [] expr = "5" -> 5

\* Value of a variable of type T declared without initializer.
DefaultInit(T, junk) ==
  CASE IsIntType(T) -> junk.int
    [] T[1] = "bool" -> junk.bool
    [] T[1] = "std::string" -> ""
    [] OTHER -> <<>>

\* Value of the variable a _makePropStorage declaration introduces.
DeclValue(decl, junk) ==
  IF decl.init = "" THEN DefaultInit(decl.type, junk)
  ELSE EvalInit(decl.type, decl.init)

(***************************************************************************)
(* Attributes: <<"IntegerAttr", v>>, <<"BoolAttr", b>>, <<"StringAttr", s>>, *)
(* <<"UnitAttr">>, <<"ArrayAttr", elements>>                                *)
(***************************************************************************)
ArrayAttr(elems) == <<"ArrayAttr", elems>>

Success(s) == [ok |-> TRUE, storage |-> s, diag |-> <<>>]
Failure(s, diag) == [ok |-> FALSE, storage |-> s, diag |-> diag]

\* The overloads of convertToAttribute(MLIRContext *, T) of the support library.
ExternConvertToAttribute(T, s) ==
  CASE IsIntType(T) -> <<"IntegerAttr", s>>
    [] T[1] = "bool" -> <<"BoolAttr", s>>
    [] T[1] = "std::string" -> <<"StringAttr", s>>

\* The overloads of convertFromAttribute(T &, Attribute, diag) of the support library.
ExternConvertFromAttribute(T, s, a) ==
  CASE IsIntType(T) ->
         IF a[1] = "IntegerAttr" THEN Success(a[2])
         ELSE Failure(s, <<"expected IntegerAttr">>)
    [] T[1] = "bool" ->
         IF a[1] = "BoolAttr" THEN Success(a[2])
         ELSE Failure(s, <<"expected BoolAttr">>)
    [] T[1] = "std::string" ->
         IF a[1] = "StringAttr" THEN Success(a[2])
         ELSE Failure(s, <<"expected StringAttr">>)

UnitProp_convertToAttribute(s) ==
  IF s THEN <<"UnitAttr">> ELSE <<"BoolAttr", FALSE>>

\* UnitProp.convertFromAttribute taking any boolean attribute as presence.
UnitProp_convertFromAttribute_ignoresValue(s, a) ==
  IF a[1] \in {"UnitAttr", "BoolAttr"} THEN Success(TRUE)
  ELSE Failure(s, <<>>)

UnitProp_convertFromAttribute(s, a) ==
  IF a[1] = "UnitAttr" THEN Success(TRUE)
  ELSE IF a[1] = "BoolAttr" THEN Success(a[2])
  ELSE Failure(s, <<>>)

RECURSIVE ConvertToAttribute(_, _, _)
RECURSIVE ConvertFromAttribute(_, _, _, _, _)

\* The loop of ArrayProp.convertToAttribute from element i on; elems is the SmallVector built so far.
RECURSIVE ArrayProp_convertToAttribute_loop(_, _, _, _, _)
ArrayProp_convertToAttribute_loop(frag, T, s, i, elems) ==
  IF i > Len(s) THEN elems
  ELSE ArrayProp_convertToAttribute_loop(frag, T, s, i + 1,
         Append(elems, ConvertToAttribute(frag[2], T[2], s[i])))

ArrayProp_convertToAttribute(frag, T, s) ==
  ArrayAttr(ArrayProp_convertToAttribute_loop(frag, T, s, 1, <<>>))

OptionalProp_convertToAttribute(frag, T, s) ==
  IF s = <<>> THEN ArrayAttr(<<>>)
  ELSE ArrayAttr(<<ConvertToAttribute(frag[2], T[2], s[1])>>)

\* Fragment frag run as convertToAttribute on storage s of type T.
ConvertToAttribute(frag, T, s) ==
  CASE frag[1] = "return convertToAttribute($_ctxt, $_storage)" ->
         ExternConvertToAttribute(T, s)
    [] frag[1] = "UnitProp.convertToAttribute" -> UnitProp_convertToAttribute(s)
    [] frag[1] = "ArrayProp.convertToAttribute" -> ArrayProp_convertToAttribute(frag, T, s)
    [] frag[1] = "OptionalProp.convertToAttribute" ->
         OptionalProp_convertToAttribute(frag, T, s)

\* The for loop of ArrayProp.convertFromAttribute from element i of arrayAttr on.
RECURSIVE ArrayProp_convertFromAttribute_loop(_, _, _, _, _, _)
ArrayProp_convertFromAttribute_loop(frag, T, s, elems, i, junk) ==
  IF i > Len(elems) THEN Success(s)
  ELSE LET elemVal == DeclValue(frag[2], junk)
           elemRes == ConvertFromAttribute(frag[3], T[2], elemVal, elems[i], junk)
       IN IF ~elemRes.ok THEN Failure(s, elemRes.diag)
          ELSE ArrayProp_convertFromAttribute_loop(frag, T, Append(s, elemRes.storage),
                                                   elems, i + 1, junk)

\* As the loop above, pushing each element at the front.
RECURSIVE ArrayProp_convertFromAttribute_loopFront(_, _, _, _, _, _)
ArrayProp_convertFromAttribute_loopFront(frag, T, s, elems, i, junk) ==
  IF i > Len(elems) THEN Success(s)
  ELSE LET elemVal == DeclValue(frag[2], junk)
           elemRes == ConvertFromAttribute(frag[3], T[2], elemVal, elems[i], junk)
       IN IF ~elemRes.ok THEN Failure(s, elemRes.diag)
          ELSE ArrayProp_convertFromAttribute_loopFront(frag, T, <<elemRes.storage>> \o s,
                                                        elems, i + 1, junk)

ArrayProp_convertFromAttribute_pushFront(frag, T, s, a, junk) ==
  IF a[1] # "ArrayAttr" THEN Failure(s, <<"expected array attribute">>)
  ELSE ArrayProp_convertFromAttribute_loopFront(frag, T, s, a[2], 1, junk)

\* As ArrayProp.convertFromAttribute, clearing the storage before the loop.
ArrayProp_convertFromAttribute_clearsFirst(frag, T, s, a, junk) ==
  IF a[1] # "ArrayAttr" THEN Failure(s, <<"expected array attribute">>)
  ELSE ArrayProp_convertFromAttribute_loop(frag, T, <<>>, a[2], 1, junk)

ArrayProp_convertFromAttribute(frag, T, s, a, junk) ==
  IF a[1] # "ArrayAttr" THEN Failure(s, <<"expected array attribute">>)
  ELSE ArrayProp_convertFromAttribute_loop(frag, T, s, a[2], 1, junk)

OptionalProp_convertFromAttribute_anySize(frag, T, s, a, junk) ==
  IF a[1] # "ArrayAttr"
  THEN Failure(s, <<"expected optional properties to materialize as arrays">>)
  ELSE IF a[2] = <<>> THEN Success(<<>>)
  ELSE LET presentVal == DeclValue(frag[2], junk)
           presentRes == ConvertFromAttribute(frag[3], T[2], presentVal, a[2][1], junk)
       IN IF ~presentRes.ok THEN Failure(s, presentRes.diag)
          ELSE Success(<<presentRes.storage>>)

OptionalProp_convertFromAttribute(frag, T, s, a, junk) ==
  IF a[1] # "ArrayAttr"
  THEN Failure(s, <<"expected optional properties to materialize as arrays">>)
  ELSE IF Len(a[2]) > 1
  THEN Failure(s, <<"expected optional properties to become 0- or 1-element arrays">>)
  ELSE IF a[2] = <<>> THEN Success(<<>>)
  ELSE LET presentVal == DeclValue(frag[2], junk)
           presentRes == ConvertFromAttribute(frag[3], T[2], presentVal, a[2][1], junk)
       IN IF ~presentRes.ok THEN Failure(s, presentRes.diag)
          ELSE Success(<<presentRes.storage>>)

\* Fragment frag run as convertFromAttribute on storage s of type T and attribute a.
ConvertFromAttribute(frag, T, s, a, junk) ==
  CASE frag[1] = "return convertFromAttribute($_storage, $_attr, $_diag)" ->
         ExternConvertFromAttribute(T, s, a)
    [] frag[1] = "UnitProp.convertFromAttribute" -> UnitProp_convertFromAttribute(s, a)
    [] frag[1] = "ArrayProp.convertFromAttribute" ->
         ArrayProp_convertFromAttribute(frag, T, s, a, junk)
    [] frag[1] = "OptionalProp.convertFromAttribute" ->
         OptionalProp_convertFromAttribute(frag, T, s, a, junk)

(***************************************************************************)
(* Storage assignment                                                       *)
(***************************************************************************)
RECURSIVE AssignToStorage(_, _, _, _, _)

OptionalProp_assignToStorage(frag, T, s, v, junk) ==
  IF v = <<>> THEN <<>>
  ELSE LET presentVal == DeclValue(frag[2], junk)
       IN <<AssignToStorage(frag[3], T[2], presentVal, v[1], junk)>>

\* Fragment frag run as assignToStorage on storage s of type T and interface value v.
AssignToStorage(frag, T, s, v, junk) ==
  CASE frag[1] = "$_storage = $_value" -> v
    [] frag[1] = "$_storage = $_value.str()" -> v
    [] frag[1] = "ArrayProp.assignToStorage" -> v
    [] frag[1] = "OptionalProp.assignToStorage" ->
         OptionalProp_assignToStorage(frag, T, s, v, junk)

(***************************************************************************)
(* Bytecode: a stream of <<"varint", n>>, <<"bool", b>>, <<"string", s>>     *)
(***************************************************************************)
\* Conversion of a signed integer to uint64_t.
ToUInt64(v) == v % Pow2(Bits64)

\* Conversion of a uint64_t to T that keeps the low bits as an unsigned number.
FromUInt64_zeroExtended(T, val) == val % Pow2(Bits(T))

\* Conversion of a uint64_t to the signed integer type T.
FromUInt64(T, val) ==
  LET m == val % Pow2(Bits(T))
  IN IF m >= Pow2(Bits(T) - 1) THEN m - Pow2(Bits(T)) ELSE m

ReadOk(s, rest) == [ok |-> TRUE, storage |-> s, rest |-> rest]
ReadFail(s, rest) == [ok |-> FALSE, storage |-> s, rest |-> rest]

\* DialectBytecodeReader::readVarInt, readBool, readString: the item read, if it is next.
ReaderHas(stream, kind) == stream # <<>> /\ stream[1][1] = kind

IntProp_writeToMlirBytecode(T, s) == << <<"varint", ToUInt64(s)>> >>

IntProp_readFromMlirBytecode(T, s, stream) ==
  IF ~ReaderHas(stream, "varint") THEN ReadFail(s, stream)
  ELSE ReadOk(FromUInt64(T, stream[1][2]), Tail(stream))

\* BoolProp and UnitProp: writeOwnedBool and readBool.
BoolProp_writeToMlirBytecode(s) == << <<"bool", s>> >>

BoolProp_readFromMlirBytecode(s, stream) ==
  IF ~ReaderHas(stream, "bool") THEN ReadFail(s, stream)
  ELSE ReadOk(stream[1][2], Tail(stream))

StringProp_writeToMlirBytecode(s) == << <<"string", s>> >>

StringProp_readFromMlirBytecode(s, stream) ==
  IF ~ReaderHas(stream, "string") THEN ReadFail(s, stream)
  ELSE ReadOk(stream[1][2], Tail(stream))

RECURSIVE WriteToMlirBytecode(_, _, _)
RECURSIVE ReadFromMlirBytecode(_, _, _, _, _)

\* The for loop of ArrayProp.writeToMlirBytecode from element i on.
RECURSIVE ArrayProp_writeToMlirBytecode_loop(_, _, _, _)
ArrayProp_writeToMlirBytecode_loop(frag, T, s, i) ==
  IF i > Len(s) THEN <<>>
  ELSE WriteToMlirBytecode(frag[2], T[2], s[i])
         \o ArrayProp_writeToMlirBytecode_loop(frag, T, s, i + 1)

ArrayProp_writeToMlirBytecode(frag, T, s) ==
  << <<"varint", Len(s)>> >> \o ArrayProp_writeToMlirBytecode_loop(frag, T, s, 1)

OptionalProp_writeToMlirBytecode(frag, T, s) ==
  << <<"bool", s # <<>>>> >>
    \o (IF s = <<>> THEN <<>> ELSE WriteToMlirBytecode(frag[2], T[2], s[1]))

\* Fragment frag run as writeToMlirBytecode on storage s of type T: the items written.
WriteToMlirBytecode(frag, T, s) ==
  CASE frag[1] = "IntProp.writeToMlirBytecode" -> IntProp_writeToMlirBytecode(T, s)
    [] frag[1] \in {"BoolProp.writeToMlirBytecode", "UnitProp.writeToMlirBytecode"} ->
         BoolProp_writeToMlirBytecode(s)
    [] frag[1] = "StringProp.writeToMlirBytecode" -> StringProp_writeToMlirBytecode(s)
    [] frag[1] = "ArrayProp.writeToMlirBytecode" -> ArrayProp_writeToMlirBytecode(frag, T, s)
    [] frag[1] = "OptionalProp.writeToMlirBytecode" ->
         OptionalProp_writeToMlirBytecode(frag, T, s)

\* The for loop of ArrayProp.readFromMlirBytecode: i elements read, length expected.
RECURSIVE ArrayProp_readFromMlirBytecode_loop(_, _, _, _, _, _, _)
ArrayProp_readFromMlirBytecode_loop(frag, T, s, stream, i, length, junk) ==
  IF i >= length THEN ReadOk(s, stream)
  ELSE LET elemVal == DeclValue(frag[2], junk)
           elemRead == ReadFromMlirBytecode(frag[3], T[2], elemVal, stream, junk)
       IN IF ~elemRead.ok THEN ReadFail(s, elemRead.rest)
          ELSE ArrayProp_readFromMlirBytecode_loop(frag, T, Append(s, elemRead.storage),
                                                   elemRead.rest, i + 1, length, junk)

ArrayProp_readFromMlirBytecode_offByOne(frag, T, s, stream, junk) ==
  IF ~ReaderHas(stream, "varint") THEN ReadFail(s, stream)
  ELSE ArrayProp_readFromMlirBytecode_loop(frag, T, s, Tail(stream), 1,
                                           stream[1][2], junk)

ArrayProp_readFromMlirBytecode(frag, T, s, stream, junk) ==
  IF ~ReaderHas(stream, "varint") THEN ReadFail(s, stream)
  ELSE ArrayProp_readFromMlirBytecode_loop(frag, T, s, Tail(stream), 0,
                                           stream[1][2], junk)

OptionalProp_readFromMlirBytecode_noFlag(frag, T, s, stream, junk) ==
  LET presentVal == DeclValue(frag[2], junk)
      presentResult == ReadFromMlirBytecode(frag[3], T[2], presentVal, stream, junk)
  IN IF ~presentResult.ok THEN ReadFail(s, presentResult.rest)
     ELSE ReadOk(<<presentResult.storage>>, presentResult.rest)

OptionalProp_readFromMlirBytecode(frag, T, s, stream, junk) ==
  IF ~ReaderHas(stream, "bool") THEN ReadFail(s, stream)
  ELSE IF ~stream[1][2] THEN ReadOk(<<>>, Tail(stream))
  ELSE LET presentVal == DeclValue(frag[2], junk)
           presentResult ==
             ReadFromMlirBytecode(frag[3], T[2], presentVal, Tail(stream), junk)
       IN IF ~presentResult.ok THEN ReadFail(s, presentResult.rest)
          ELSE ReadOk(<<presentResult.storage>>, presentResult.rest)

\* Fragment frag run as readFromMlirBytecode on storage s of type T, reading stream.
ReadFromMlirBytecode(frag, T, s, stream, junk) ==
  CASE frag[1] = "IntProp.readFromMlirBytecode" -> IntProp_readFromMlirBytecode(T, s, stream)
    [] frag[1] \in {"BoolProp.readFromMlirBytecode", "UnitProp.readFromMlirBytecode"} ->
         BoolProp_readFromMlirBytecode(s, stream)
    [] frag[1] = "StringProp.readFromMlirBytecode" ->
         StringProp_readFromMlirBytecode(s, stream)
    [] frag[1] = "ArrayProp.readFromMlirBytecode" ->
         ArrayProp_readFromMlirBytecode(frag, T, s, stream, junk)
    [] frag[1] = "OptionalProp.readFromMlirBytecode" ->
         OptionalProp_readFromMlirBytecode(frag, T, s, stream, junk)

(***************************************************************************)
(* Printing: a sequence of <<"int", v>>, <<"str", s>>, <<"lit", text>>       *)
(***************************************************************************)
Lit(text) == <<"lit", text>>

RECURSIVE Printer(_, _, _)

\* ::llvm::interleaveComma over the elements from i on.
RECURSIVE ArrayProp_printer_interleaveComma(_, _, _, _)
ArrayProp_printer_interleaveComma(frag, T, s, i) ==
  IF i > Len(s) THEN <<>>
  ELSE (IF i > 1 THEN <<Lit(", ")>> ELSE <<>>)
         \o Printer(frag[2], T[2], s[i])
         \o ArrayProp_printer_interleaveComma(frag, T, s, i + 1)

ArrayProp_printer_reversed(frag, T, s) ==
  <<Lit("[")>>
    \o ArrayProp_printer_interleaveComma(frag, T, [i \in 1..Len(s) |-> s[Len(s) + 1 - i]], 1)
    \o <<Lit("]")>>

ArrayProp_printer(frag, T, s) ==
  <<Lit("[")>> \o ArrayProp_printer_interleaveComma(frag, T, s, 1) \o <<Lit("]")>>

OptionalProp_generalPrinter(frag, T, s) ==
  IF s = <<>> THEN <<Lit("none")>>
  ELSE <<Lit("some<")>> \o Printer(frag[2], T[2], s[1]) \o <<Lit(">")>>

OptionalProp_delegatedPrinter_wrapped(frag, T, s) ==
  IF s = <<>> THEN <<Lit("none")>>
  ELSE <<Lit("some<")>> \o Printer(frag[2], T[2], s[1]) \o <<Lit(">")>>

OptionalProp_delegatedPrinter(frag, T, s) ==
  IF s = <<>> THEN <<Lit("none")>>
  ELSE Printer(frag[2], T[2], s[1])

\* Fragment frag run as printer on storage s of type T: what is printed.
Printer(frag, T, s) ==
  CASE frag[1] = "IntProp.printer" -> << <<"int", s>> >>
    [] frag[1] = "BoolProp.printer" -> <<Lit(IF s THEN "true" ELSE "false")>>
    [] frag[1] = "UnitProp.printer" -> <<Lit(IF s THEN "unit" ELSE "unit_absent")>>
    [] frag[1] = "StringProp.printer" -> << <<"str", s>> >>
    [] frag[1] = "ArrayProp.printer" -> ArrayProp_printer(frag, T, s)
    [] frag[1] = "OptionalProp.delegatedPrinter" -> OptionalProp_delegatedPrinter(frag, T, s)
    [] frag[1] = "OptionalProp.generalPrinter" -> OptionalProp_generalPrinter(frag, T, s)

(***************************************************************************)
(* Parsing: a stream of tokens <<"int", v>>, <<"str", s>>, <<"kw", word>>,   *)
(* <<"punct", c>>. A parser gives res "success" or "failure"; an optional   *)
(* parser can also give "nullopt" (nothing of this property is next).       *)
(***************************************************************************)
ParseSuccess(s, rest) == [res |-> "success", storage |-> s, rest |-> rest, diag |-> <<>>]
ParseFailure(s, rest, diag) == [res |-> "failure", storage |-> s, rest |-> rest, diag |-> diag]
ParseNullopt(s, rest) == [res |-> "nullopt", storage |-> s, rest |-> rest, diag |-> <<>>]

\* The next token is the punctuation or the keyword `text`.
NextIs(stream, kind, text) ==
  IF stream = <<>> THEN FALSE
  ELSE IF stream[1][1] # kind THEN FALSE
  ELSE stream[1][2] = text

\* parseOptionalKeyword(&keyword, allowed): the next token is one of the keywords.
ParseOptionalKeyword(stream, allowed) ==
  IF stream = <<>> THEN FALSE
  ELSE IF stream[1][1] # "kw" THEN FALSE
  ELSE stream[1][2] \in allowed

\* parseOptionalInteger(T &): an integer literal (for bool also `true` and `false`);
\* a literal that does not fit T is an error.
ParseOptionalInteger(T, s, stream) ==
  IF stream = <<>> THEN ParseNullopt(s, stream)
  ELSE IF stream[1][1] = "int"
  THEN IF T[1] = "bool"
       THEN IF stream[1][2] \in {0, 1} THEN ParseSuccess(stream[1][2] = 1, Tail(stream))
            ELSE ParseFailure(s, Tail(stream), <<"integer value too large">>)
       ELSE IF stream[1][2] \in IntRange(T) THEN ParseSuccess(stream[1][2], Tail(stream))
            ELSE ParseFailure(s, Tail(stream), <<"integer value too large">>)
  ELSE IF T[1] = "bool" /\ ParseOptionalKeyword(stream, {"true", "false"})
  THEN ParseSuccess(stream[1][2] = "true", Tail(stream))
  ELSE ParseNullopt(s, stream)

\* parseOptionalString(std::string *): a string literal.
ParseOptionalString(s, stream) ==
  IF stream = <<>> THEN ParseNullopt(s, stream)
  ELSE IF stream[1][1] = "str" THEN ParseSuccess(stream[1][2], Tail(stream))
  ELSE ParseNullopt(s, stream)

\* FieldParser<T>::parse: the literal of T is required.
FieldParserParse(T, s, stream) ==
  LET r == IF T[1] = "std::string" THEN ParseOptionalString(s, stream)
           ELSE ParseOptionalInteger(T, s, stream)
  IN IF r.res = "nullopt" THEN ParseFailure(s, r.rest, <<"expected value">>) ELSE r

StringProp_optionalParser(s, stream) ==
  LET r == ParseOptionalString(s, stream)
  IN IF r.res = "success" THEN r ELSE ParseNullopt(s, stream)

\* UnitProp.parser setting the storage to true on either keyword.
UnitProp_parser_presence(s, stream) ==
  IF ~ParseOptionalKeyword(stream, {"unit", "unit_absent"})
  THEN ParseFailure(s, stream, <<"expected 'unit' or 'unit_absent'">>)
  ELSE ParseSuccess(TRUE, Tail(stream))

UnitProp_parser(s, stream) ==
  IF ~ParseOptionalKeyword(stream, {"unit", "unit_absent"})
  THEN ParseFailure(s, stream, <<"expected 'unit' or 'unit_absent'">>)
  ELSE ParseSuccess(stream[1][2] = "unit", Tail(stream))

\* UnitProp.optionalParser clearing the storage before it looks for the keyword.
UnitProp_optionalParser_clears(s, stream) ==
  IF ~ParseOptionalKeyword(stream, {"unit", "unit_absent"})
  THEN ParseNullopt(FALSE, stream)
  ELSE ParseSuccess(stream[1][2] = "unit", Tail(stream))

UnitProp_optionalParser(s, stream) ==
  IF ~ParseOptionalKeyword(stream, {"unit", "unit_absent"})
  THEN ParseNullopt(s, stream)
  ELSE ParseSuccess(stream[1][2] = "unit", Tail(stream))

RECURSIVE Parse(_, _, _, _, _)

\* parseElemFn of ArrayProp's theParserBegin: one element parsed and pushed back.
ArrayProp_parseElemFn(frag, T, s, stream, junk) ==
  LET elemVal == DeclValue(frag[2][1], junk)
      elemParse == Parse(frag[2][2], T[2], elemVal, stream, junk)
  IN IF elemParse.res # "success" THEN ParseFailure(s, elemParse.rest, elemParse.diag)
     ELSE ParseSuccess(Append(s, elemParse.storage), elemParse.rest)

\* parseCommaSeparatedList after the opening bracket of a non-empty list: an element,
\* then either a comma and the rest, or the closing bracket.
RECURSIVE ParseCommaSeparatedList_elements(_, _, _, _, _)
ParseCommaSeparatedList_elements(frag, T, s, stream, junk) ==
  LET elem == ArrayProp_parseElemFn(frag, T, s, stream, junk)
  IN IF elem.res # "success" THEN elem
     ELSE IF NextIs(elem.rest, "punct", ",")
     THEN ParseCommaSeparatedList_elements(frag, T, elem.storage, Tail(elem.rest), junk)
     ELSE IF NextIs(elem.rest, "punct", "]")
     THEN ParseSuccess(elem.storage, Tail(elem.rest))
     ELSE ParseFailure(elem.storage, elem.rest, <<"expected ']'">>)

\* parseCommaSeparatedList(Delimiter::Square or Delimiter::OptionalSquare, parseElemFn).
ParseCommaSeparatedList(frag, T, s, stream, junk, optionalSquare) ==
  IF ~NextIs(stream, "punct", "[")
  THEN IF optionalSquare THEN ParseSuccess(s, stream)
       ELSE ParseFailure(s, stream, <<"expected '['">>)
  ELSE IF NextIs(Tail(stream), "punct", "]") THEN ParseSuccess(s, Tail(Tail(stream)))
  ELSE ParseCommaSeparatedList_elements(frag, T, s, Tail(stream), junk)

ArrayProp_parser(frag, T, s, stream, junk) ==
  ParseCommaSeparatedList(frag, T, s, stream, junk, FALSE)

\* ArrayProp.optionalParser without the comparison of the locations.
ArrayProp_optionalParser_noPeek(frag, T, s, stream, junk) ==
  ParseCommaSeparatedList(frag, T, s, stream, junk, TRUE)

ArrayProp_optionalParser(frag, T, s, stream, junk) ==
  LET parseResult == ParseCommaSeparatedList(frag, T, s, stream, junk, TRUE)
  IN IF parseResult.res = "failure" THEN parseResult
     ELSE IF Len(parseResult.rest) = Len(stream)
     THEN ParseNullopt(parseResult.storage, parseResult.rest)
     ELSE parseResult

\* The delegated parser without the test for the keyword `none`.
OptionalProp_delegatedParserBody_noNone(frag, T, s, stream, junk, onAbsent) ==
  LET presentVal == DeclValue(frag[2][1], junk)
      delegParseResult == Parse(frag[2][2], T[2], presentVal, stream, junk)
  IN IF delegParseResult.res = "nullopt"
     THEN IF onAbsent = "failure" THEN ParseFailure(s, delegParseResult.rest, <<>>)
          ELSE ParseNullopt(s, delegParseResult.rest)
     ELSE IF delegParseResult.res = "failure"
     THEN ParseFailure(s, delegParseResult.rest, delegParseResult.diag)
     ELSE ParseSuccess(<<delegParseResult.storage>>, delegParseResult.rest)

\* delegatedParserBegin # onAbsent # delegatedParserEnd; onAbsent is what the parser
\* returns when p's optional parser finds nothing.
OptionalProp_delegatedParserBody(frag, T, s, stream, junk, onAbsent) ==
  IF ParseOptionalKeyword(stream, {"none"}) THEN ParseSuccess(<<>>, Tail(stream))
  ELSE LET presentVal == DeclValue(frag[2][1], junk)
           delegParseResult == Parse(frag[2][2], T[2], presentVal, stream, junk)
       IN IF delegParseResult.res = "nullopt"
          THEN IF onAbsent = "failure" THEN ParseFailure(s, delegParseResult.rest, <<>>)
               ELSE ParseNullopt(s, delegParseResult.rest)
          ELSE IF delegParseResult.res = "failure"
          THEN ParseFailure(s, delegParseResult.rest, delegParseResult.diag)
          ELSE ParseSuccess(<<delegParseResult.storage>>, delegParseResult.rest)

OptionalProp_delegatedParser(frag, T, s, stream, junk) ==
  OptionalProp_delegatedParserBody(frag, T, s, stream, junk, "failure")

OptionalProp_delegatedOptionalParser(frag, T, s, stream, junk) ==
  OptionalProp_delegatedParserBody(frag, T, s, stream, junk, "nullopt")

\* The general parser with p's parser run on $_storage itself instead of presentVal.
OptionalProp_generalParserBody_inPlace(frag, T, s, stream, junk, onAbsent) ==
  IF ~ParseOptionalKeyword(stream, {"none", "some"})
  THEN IF onAbsent = "failure"
       THEN ParseFailure(s, stream, <<"expected 'none' or 'some<prop>'">>)
       ELSE ParseNullopt(s, stream)
  ELSE IF stream[1][2] = "none" THEN ParseSuccess(<<>>, Tail(stream))
  ELSE IF ~NextIs(Tail(stream), "punct", "<")
  THEN ParseFailure(s, Tail(stream), <<"expected '<'">>)
  ELSE LET presentVal == DeclValue(frag[2][1], junk)
           presentParse == Parse(frag[2][2], T[2], presentVal, Tail(Tail(stream)), junk)
       IN IF presentParse.res # "success"
          THEN ParseFailure(s, presentParse.rest, presentParse.diag)
          ELSE IF ~NextIs(presentParse.rest, "punct", ">")
          THEN ParseFailure(<<presentParse.storage>>, presentParse.rest, <<"expected '>'">>)
          ELSE ParseSuccess(<<presentParse.storage>>, Tail(presentParse.rest))

\* generalParserBegin # onAbsent # generalParserEnd; onAbsent is what the parser
\* returns when neither `none` nor `some` is next.
OptionalProp_generalParserBody(frag, T, s, stream, junk, onAbsent) ==
  IF ~ParseOptionalKeyword(stream, {"none", "some"})
  THEN IF onAbsent = "failure"
       THEN ParseFailure(s, stream, <<"expected 'none' or 'some<prop>'">>)
       ELSE ParseNullopt(s, stream)
  ELSE IF stream[1][2] = "none" THEN ParseSuccess(<<>>, Tail(stream))
  ELSE IF ~NextIs(Tail(stream), "punct", "<")
  THEN ParseFailure(s, Tail(stream), <<"expected '<'">>)
  ELSE LET presentVal == DeclValue(frag[2][1], junk)
           presentParse == Parse(frag[2][2], T[2], presentVal, Tail(Tail(stream)), junk)
       IN IF presentParse.res # "success"
          THEN ParseFailure(s, presentParse.rest, presentParse.diag)
          ELSE IF ~NextIs(presentParse.rest, "punct", ">")
          THEN ParseFailure(s, presentParse.rest, <<"expected '>'">>)
          ELSE ParseSuccess(<<presentParse.storage>>, Tail(presentParse.rest))

OptionalProp_generalParser(frag, T, s, stream, junk) ==
  OptionalProp_generalParserBody(frag, T, s, stream, junk, "failure")

OptionalProp_generalOptionalParser(frag, T, s, stream, junk) ==
  OptionalProp_generalParserBody(frag, T, s, stream, junk, "nullopt")

\* Fragment frag run as parser or optionalParser on storage s of type T, reading stream.
Parse(frag, T, s, stream, junk) ==
  CASE frag[1] = "FieldParser::parse" -> FieldParserParse(T, s, stream)
    [] frag[1] = "IntProp.optionalParser" -> ParseOptionalInteger(T, s, stream)
    [] frag[1] = "StringProp.optionalParser" -> StringProp_optionalParser(s, stream)
    [] frag[1] = "UnitProp.parser" -> UnitProp_parser(s, stream)
    [] frag[1] = "UnitProp.optionalParser" -> UnitProp_optionalParser(s, stream)
    [] frag[1] = "ArrayProp.parser" -> ArrayProp_parser(frag, T, s, stream, junk)
    [] frag[1] = "ArrayProp.optionalParser" ->
         ArrayProp_optionalParser(frag, T, s, stream, junk)
    [] frag[1] = "OptionalProp.delegatedParser" ->
         OptionalProp_delegatedParser(frag, T, s, stream, junk)
    [] frag[1] = "OptionalProp.delegatedOptionalParser" ->
         OptionalProp_delegatedOptionalParser(frag, T, s, stream, junk)
    [] frag[1] = "OptionalProp.generalParser" ->
         OptionalProp_generalParser(frag, T, s, stream, junk)
    [] frag[1] = "OptionalProp.generalOptionalParser" ->
         OptionalProp_generalOptionalParser(frag, T, s, stream, junk)

\* The tokens of a printed piece.
LexPiece(piece) ==
  CASE piece[1] = "int" -> << <<"int", piece[2]>> >>
    [] piece[1] = "str" -> << <<"str", piece[2]>> >>
    [] piece[2] \in {"[", "]", ">"} -> << <<"punct", piece[2]>> >>
    [] piece[2] = ", " -> << <<"punct", ",">> >>
    [] piece[2] = "some<" -> << <<"kw", "some">>, <<"punct", "<">> >>
    [] OTHER -> << <<"kw", piece[2]>> >>

\* The tokens the lexer makes of a printed text.
RECURSIVE Lex(_)
Lex(text) == IF text = <<>> THEN <<>> ELSE LexPiece(Head(text)) \o Lex(Tail(text))

(***************************************************************************)
(* Predicates: the verdicts a predicate can give on an interface value      *)
(*   val  the boolean it yields                                             *)
(*   ub   whether it read the value of an absent std::optional              *)
(***************************************************************************)
Verdict(b) == { [val |-> b, ub |-> FALSE] }
\* Reading *x of an absent optional is undefined: either boolean may come out.
Undefined == { [val |-> b, ub |-> TRUE] : b \in BOOLEAN }

\* Fragment frag run as convertFromStorage on storage s: the interface value.
RECURSIVE ConvertFromStorage(_, _)
ConvertFromStorage(frag, s) ==
  CASE frag[1] = "$_storage" -> s
    [] frag[1] = "::llvm::StringRef{$_storage}" -> s
    [] frag[1] = "ArrayProp.convertFromStorage" -> s
    [] frag[1] = "OptionalProp.convertFromStorage" ->
         IF s = <<>> THEN <<>> ELSE <<ConvertFromStorage(frag[2], s[1])>>

\* Literals ConstantProp compares with.
Literals == {"0", "5"}

\* The C++ condition `code` with $_self standing for self.
EvalCPred(code, self) ==
  CASE code = "$_self > 0" -> Verdict(self > 0)
    [] code = "$_self < 5" -> Verdict(self < 5)
    [] code = "!$_self.empty()" -> Verdict(self # "")
    [] code = "$_self.has_value()" -> Verdict(self # <<>>)
    [] code = "!$_self.has_value()" -> Verdict(self = <<>>)
    [] OTHER -> LET lit == CHOOSE l \in Literals : code = "$_self == " \o l
                IN Verdict(self = EvalInit(<<"int64_t">>, lit))

\* a && b: b is evaluated only when a yields true.
AndThen(A, B) ==
  UNION { IF a.val THEN { [val |-> b.val, ub |-> a.ub \/ b.ub] : b \in B } ELSE {a} : a \in A }

\* a || b: b is evaluated only when a yields false.
OrElse(A, B) ==
  UNION { IF a.val THEN {a} ELSE { [val |-> b.val, ub |-> a.ub \/ b.ub] : b \in B } : a \in A }

RECURSIVE EvalPred(_, _, _)

\* And<[...]> from operand i on.
RECURSIVE EvalAnd(_, _, _, _)
EvalAnd(preds, i, self, defined) ==
  IF i > Len(preds) THEN Verdict(TRUE)
  ELSE AndThen(EvalPred(preds[i], self, defined), EvalAnd(preds, i + 1, self, defined))

\* Or<[...]> from operand i on.
RECURSIVE EvalOr(_, _, _, _)
EvalOr(preds, i, self, defined) ==
  IF i > Len(preds) THEN Verdict(FALSE)
  ELSE OrElse(EvalPred(preds[i], self, defined), EvalOr(preds, i + 1, self, defined))

\* ::llvm::all_of($_self, wrapper) from element i on.
RECURSIVE AllOf(_, _, _, _)
AllOf(wrapper, self, i, defined) ==
  IF i > Len(self) THEN Verdict(TRUE)
  ELSE AndThen(EvalPred(wrapper, self[i], defined), AllOf(wrapper, self, i + 1, defined))

\* Predicate pred on the value self of $_self; defined is FALSE once $_self stands
\* for the value of an absent optional.
EvalPred(pred, self, defined) ==
  CASE pred[1] = "TruePred" -> Verdict(TRUE)
    [] pred[1] = "CPred" -> IF defined THEN EvalCPred(pred[2], self) ELSE Undefined
    [] pred[1] = "And" -> EvalAnd(pred[2], 1, self, defined)
    [] pred[1] = "Or" -> EvalOr(pred[2], 1, self, defined)
    [] pred[1] = "SubstLeaves" ->
         IF pred[3] = "(*($_self))"
         THEN IF defined /\ self # <<>> THEN EvalPred(pred[4], self[1], TRUE)
              ELSE EvalPred(pred[4], self, FALSE)
         ELSE EvalPred(pred[4], self, defined)
    [] pred[1] = "Concat" -> AllOf(pred[3], self, 1, defined)
    [] pred[1] = "StorageWrapperPred" ->
         EvalPred(pred[4], ConvertFromStorage(pred[5], self), defined)

(***************************************************************************)
(* Inputs of the calls                                                      *)
(***************************************************************************)
\* Attributes handed to convertFromAttribute of definition e: the well-formed
\* ones and ill-formed ones (wrong kind, too many elements, ill-formed element).
RECURSIVE AttrInputs(_, _)
AttrInputs(e, nested) ==
  CASE e[1] \in {"I32Prop", "I64Prop"} ->
         { <<"IntegerAttr", v>> : v \in Values(e, nested) } \cup { <<"UnitAttr">> }
    [] e[1] = "BoolProp" -> { <<"BoolAttr", b>> : b \in BOOLEAN } \cup { <<"UnitAttr">> }
    [] e[1] = "UnitProp" ->
         { <<"BoolAttr", b>> : b \in BOOLEAN } \cup { <<"UnitAttr">>, <<"IntegerAttr", 0>> }
    [] e[1] = "StringProp" ->
         { <<"StringAttr", s>> : s \in StringSamples } \cup { <<"UnitAttr">> }
    [] e[1] = "ArrayProp" ->
         { ArrayAttr(q) : q \in SeqsUpTo(MaxLen, AttrInputs(e[2], 1)) } \cup { <<"UnitAttr">> }
    [] IsOptionalDef(e) ->
         { ArrayAttr(<<>>), <<"UnitAttr">> }
           \cup { ArrayAttr(<<x>>) : x \in AttrInputs(e[2], 1) }
           \cup { ArrayAttr(<<x, x>>) :
                    x \in IF nested = 0 THEN AttrInputs(e[2], 1) ELSE { <<"UnitAttr">> } }
    [] OTHER -> AttrInputs(e[2], nested)

\* What may follow a property in the bytecode stream.
Tails == { <<>>, << <<"varint", 1>> >> }

\* Streams handed to readFromMlirBytecode of definition e: every prefix of what
\* writeToMlirBytecode writes for some value, followed or not by more items.
StreamInputs(e) ==
  UNION { { SubSeq(w \o tail, 1, k) : k \in 0..Len(w \o tail) } :
            w \in { WriteToMlirBytecode(Build(e).writeToMlirBytecode,
                                        Build(e).storageType, v) : v \in Values(e, 0) },
            tail \in Tails }

\* Storage values within the bounds of the model.
RECURSIVE Bounded(_, _)
Bounded(e, s) ==
  CASE e[1] = "ArrayProp" -> Len(s) <= MaxLen /\ \A i \in 1..Len(s) : Bounded(e[2], s[i])
    [] IsOptionalDef(e) -> IF s = <<>> THEN TRUE ELSE Bounded(e[2], s[1])
    [] e[1] \in {"DefaultValuedProp", "ConfinedProp", "ConstantProp"} -> Bounded(e[2], s)
    [] OTHER -> TRUE

\* Storage values whose printed form is handed to the parsers.
RECURSIVE ParsedValues(_)
ParsedValues(e) ==
  CASE e[1] = "ArrayProp" -> SeqsUpTo(MaxParsed, Values(e[2], 1))
    [] IsOptionalDef(e) ->
         IF e[2][1] = "ArrayProp" THEN {<<>>} \cup { <<v>> : v \in ParsedValues(e[2]) }
         ELSE Values(e, 0)
    [] e[1] \in {"DefaultValuedProp", "ConfinedProp", "ConstantProp"} -> ParsedValues(e[2])
    [] OTHER -> Values(e, 0)

\* What may follow a property in the text.
TokenTails == { <<>>, << <<"int", 0>> >> }

\* Token streams handed to the parsers of definition e: every prefix of the printed
\* form of some value, followed or not by more tokens; the printed form with one
\* token missing; and a word that starts no property.
TokenInputs(e) ==
  LET written == { Lex(Printer(Build(e).printer, Build(e).storageType, v)) :
                     v \in ParsedValues(e) }
  IN UNION { { SubSeq(w \o tail, 1, k) : k \in 0..Len(w \o tail) } :
               w \in written, tail \in TokenTails }
       \cup UNION { { SubSeq(w, 1, k - 1) \o SubSeq(w, k + 1, Len(w)) : k \in 1..Len(w) } :
                      w \in written }
       \cup { << <<"kw", "other">> >> }

\* The parsed list fits the storage within the bounds of the model.
RECURSIVE Room(_, _)
Room(e, s) ==
  CASE e[1] = "ArrayProp" -> Len(s) + MaxParsed <= MaxLen
    [] e[1] \in {"DefaultValuedProp", "ConfinedProp", "ConstantProp"} -> Room(e[2], s)
    [] OTHER -> TRUE

TokenInputsOf == [e \in Schema |-> TokenInputs(e)]
ValuesOf == [e \in Definitions |-> Values(e, 0)]
AttrInputsOf == [e \in Schema |-> AttrInputs(e, 0)]
StreamInputsOf == [e \in Schema |-> StreamInputs(e)]
DescOf == [e \in Definitions |-> Build(e)]

(***************************************************************************)
(* State machine                                                            *)
(*   prop     the property definition under study                          *)
(*   status   "declared", then "compiled" or "rejected" (an assert failed) *)
(*   storage  the storage of one property of this definition               *)
(*   op       the generated function called last ("none" before storage    *)
(*            exists)                                                       *)
(*   attr, bytes, pos, printed, result                                      *)
(*            the attribute passed or returned, the bytecode stream read or *)
(*            written, the number of items the reader consumed, the text    *)
(*            printed, and the result of the last call                      *)
(*   prev     storage when the last call began                              *)
(*   tokens   the tokens handed to the parser called last                    *)
(***************************************************************************)
NoAttr == <<"null">>
Ok == [ok |-> TRUE, diag |-> <<>>]

\* Calls are followed one at a time: each starts from storage just constructed or
\* assigned, which covers every storage value a call can leave behind.
Settled == op \in {"construct", "assignToStorage"}

Init ==
  /\ NoDriver
  /\ prop \in Schema
  /\ status = "declared"
  /\ storage = <<>>
  /\ op = "none"
  /\ attr = NoAttr
  /\ bytes = <<>>
  /\ pos = 0
  /\ printed = <<>>
  /\ result = Ok
  /\ prev = <<>>
  /\ tokens = <<>>

\* TableGen builds the record and checks its asserts.
Compile ==
  /\ status = "declared"
  /\ status' = IF AssertsHold(prop) THEN "compiled" ELSE "rejected"
  /\ UNCHANGED <<prop, storage, op, attr, bytes, pos, printed, result, prev, tokens>>
  /\ UNCHANGED driver

\* A property struct is constructed: storage holds the default value, if any.
Construct ==
  /\ status = "compiled"
  /\ \E junk \in Junk :
       storage' = DeclValue(makePropStorage(DescOf[prop], "storage"), junk)
  /\ op' = "construct"
  /\ prev' = storage'
  /\ attr' = NoAttr /\ bytes' = <<>> /\ pos' = 0 /\ printed' = <<>> /\ result' = Ok
  /\ tokens' = <<>>
  /\ UNCHANGED <<prop, status>>
  /\ UNCHANGED driver

CallAssignToStorage ==
  /\ op = "construct"
  /\ \E v \in ValuesOf[prop], junk \in Junk :
       storage' = AssignToStorage(DescOf[prop].assignToStorage, DescOf[prop].storageType,
                                  storage, v, junk)
  /\ op' = "assignToStorage"
  /\ prev' = storage
  /\ attr' = NoAttr /\ bytes' = <<>> /\ pos' = 0 /\ printed' = <<>> /\ result' = Ok
  /\ UNCHANGED <<prop, status, tokens>>
  /\ UNCHANGED driver

CallConvertToAttribute ==
  /\ Settled
  /\ attr' = ConvertToAttribute(DescOf[prop].convertToAttribute, DescOf[prop].storageType,
                                storage)
  /\ op' = "convertToAttribute"
  /\ prev' = storage
  /\ bytes' = <<>> /\ pos' = 0 /\ printed' = <<>> /\ result' = Ok
  /\ UNCHANGED <<prop, status, storage, tokens>>
  /\ UNCHANGED driver

CallConvertFromAttribute ==
  /\ Settled
  /\ \E a \in AttrInputsOf[prop], junk \in Junk :
       LET r == ConvertFromAttribute(DescOf[prop].convertFromAttribute,
                                     DescOf[prop].storageType, storage, a, junk)
       IN /\ Bounded(prop, r.storage)
          /\ storage' = r.storage
          /\ result' = [ok |-> r.ok, diag |-> r.diag]
          /\ attr' = a
  /\ op' = "convertFromAttribute"
  /\ prev' = storage
  /\ bytes' = <<>> /\ pos' = 0 /\ printed' = <<>>
  /\ UNCHANGED <<prop, status, tokens>>
  /\ UNCHANGED driver

CallWriteToMlirBytecode ==
  /\ Settled
  /\ bytes' = WriteToMlirBytecode(DescOf[prop].writeToMlirBytecode,
                                  DescOf[prop].storageType, storage)
  /\ op' = "writeToMlirBytecode"
  /\ prev' = storage
  /\ attr' = NoAttr /\ pos' = 0 /\ printed' = <<>> /\ result' = Ok
  /\ UNCHANGED <<prop, status, storage, tokens>>
  /\ UNCHANGED driver

CallReadFromMlirBytecode ==
  /\ Settled
  /\ \E stream \in StreamInputsOf[prop], junk \in Junk :
       LET r == ReadFromMlirBytecode(DescOf[prop].readFromMlirBytecode,
                                     DescOf[prop].storageType, storage, stream, junk)
       IN /\ Bounded(prop, r.storage)
          /\ storage' = r.storage
          /\ result' = [ok |-> r.ok, diag |-> <<>>]
          /\ bytes' = stream
          /\ pos' = Len(stream) - Len(r.rest)
  /\ op' = "readFromMlirBytecode"
  /\ prev' = storage
  /\ attr' = NoAttr /\ printed' = <<>>
  /\ UNCHANGED <<prop, status, tokens>>
  /\ UNCHANGED driver

CallPrinter ==
  /\ Settled
  /\ printed' = Printer(DescOf[prop].printer, DescOf[prop].storageType, storage)
  /\ op' = "printer"
  /\ prev' = storage
  /\ attr' = NoAttr /\ bytes' = <<>> /\ pos' = 0 /\ result' = Ok
  /\ UNCHANGED <<prop, status, storage, tokens>>
  /\ UNCHANGED driver

Next ==
  \/ Compile
  \/ Construct
  \/ CallAssignToStorage
  \/ CallConvertToAttribute
  \/ CallConvertFromAttribute
  \/ CallWriteToMlirBytecode
  \/ CallReadFromMlirBytecode
  \/ CallPrinter

Spec == Init /\ [][Next]_vars

(***************************************************************************)
(* The modifiers and the predicates: definitions of Schema and of           *)
(* ModifierSchema are compiled, constructed, assigned and verified.         *)
(***************************************************************************)
VerifyInit ==
  /\ NoDriver
  /\ prop \in Definitions
  /\ status = "declared"
  /\ storage = <<>>
  /\ op = "none"
  /\ attr = NoAttr
  /\ bytes = <<>>
  /\ pos = 0
  /\ printed = <<>>
  /\ result = Ok
  /\ prev = <<>>
  /\ tokens = <<>>

\* The verifier evaluates the predicate with $_self the interface value.
CallPredicate ==
  /\ Settled
  /\ \E r \in EvalPred(DescOf[prop].predicate,
                       ConvertFromStorage(DescOf[prop].convertFromStorage, storage), TRUE) :
       result' = [ok |-> r.val, diag |-> <<>>, ub |-> r.ub]
  /\ op' = "predicate"
  /\ prev' = storage
  /\ attr' = NoAttr /\ bytes' = <<>> /\ pos' = 0 /\ printed' = <<>>
  /\ UNCHANGED <<prop, status, storage, tokens>>
  /\ UNCHANGED driver

VerifyNext ==
  \/ Compile
  \/ Construct
  \/ CallAssignToStorage
  \/ CallPredicate

VerifySpec == VerifyInit /\ [][VerifyNext]_vars

(***************************************************************************)
(* The textual form: definitions of Schema are compiled, constructed,       *)
(* assigned, printed and parsed.                                            *)
(***************************************************************************)
CallParser ==
  /\ Settled
  /\ Room(prop, storage)
  /\ \E stream \in TokenInputsOf[prop], junk \in Junk :
       LET r == Parse(DescOf[prop].parser, DescOf[prop].storageType, storage, stream, junk)
       IN /\ Bounded(prop, r.storage)
          /\ storage' = r.storage
          /\ result' = [ok |-> r.res = "success", diag |-> r.diag, res |-> r.res]
          /\ tokens' = stream
          /\ pos' = Len(stream) - Len(r.rest)
  /\ op' = "parser"
  /\ prev' = storage
  /\ attr' = NoAttr /\ bytes' = <<>> /\ printed' = <<>>
  /\ UNCHANGED <<prop, status>>
  /\ UNCHANGED driver

CallOptionalParser ==
  /\ Settled
  /\ Room(prop, storage)
  /\ DescOf[prop].optionalParser # NoCode
  /\ \E stream \in TokenInputsOf[prop], junk \in Junk :
       LET r == Parse(DescOf[prop].optionalParser, DescOf[prop].storageType, storage,
                      stream, junk)
       IN /\ Bounded(prop, r.storage)
          /\ storage' = r.storage
          /\ result' = [ok |-> r.res = "success", diag |-> r.diag, res |-> r.res]
          /\ tokens' = stream
          /\ pos' = Len(stream) - Len(r.rest)
  /\ op' = "optionalParser"
  /\ prev' = storage
  /\ attr' = NoAttr /\ bytes' = <<>> /\ printed' = <<>>
  /\ UNCHANGED <<prop, status>>
  /\ UNCHANGED driver

ParseNext ==
  \/ Compile
  \/ Construct
  \/ CallAssignToStorage
  \/ CallPrinter
  \/ CallParser
  \/ CallOptionalParser

ParseSpec == Init /\ [][ParseNext]_vars

(***************************************************************************)
(* Properties                                                               *)
(***************************************************************************)
D == DescOf[prop]
T == DescOf[prop].storageType

RECURSIVE Flatten(_)
Flatten(seqs) == IF seqs = <<>> THEN <<>> ELSE Head(seqs) \o Flatten(Tail(seqs))

Called(name) == op = name

\* The storage sequence of the end-to-end scenario.
Scenario == << <<3>>, <<>>, <<-1>> >>

C1_Attr(s) ==
  ArrayAttr([i \in 1..Len(s) |->
    IF s[i] = <<>> THEN ArrayAttr(<<>>)
    ELSE ArrayAttr(<< <<"IntegerAttr", s[i][1]>> >>)])

C1_Bytes(s) ==
  << <<"varint", Len(s)>> >>
    \o Flatten([i \in 1..Len(s) |->
         IF s[i] = <<>> THEN << <<"bool", FALSE>> >>
         ELSE << <<"bool", TRUE>>, <<"varint", ToUInt64(s[i][1])>> >>])

C1_Text(s) ==
  <<Lit("[")>>
    \o Flatten([i \in 1..Len(s) |->
         (IF i > 1 THEN <<Lit(", ")>> ELSE <<>>)
           \o (IF s[i] = <<>> THEN <<Lit("none")>> ELSE << <<"int", s[i][1]>> >>)])
    \o <<Lit("]")>>

\* C1: for Array(Optional(Int)) every storage sequence converts to the attribute list
\* with one inner list per element in order ([v] for present(v), [] for absent), is
\* written as the count followed per element by the presence boolean and the varint
\* only when present, and prints as [ ... ] with `none` for absent and the bare
\* integer for present.
C1_EndToEnd ==
  prop = eArrOptI32 =>
    /\ Called("convertToAttribute") => attr = C1_Attr(storage)
    /\ Called("writeToMlirBytecode") => bytes = C1_Bytes(storage)
    /\ Called("printer") => printed = C1_Text(storage)

C1_Witness ==
  /\ prop = eArrOptI32
  /\ Called("printer")
  /\ storage = Scenario
  /\ printed = <<Lit("["), <<"int", 3>>, Lit(", "), Lit("none"), Lit(", "),
                 <<"int", -1>>, Lit("]")>>

\* C2 (as claimed): when Array convertFromAttribute fails, no element of the list has
\* been emitted: the storage equals its value before the call.
C2_FailureLeavesStorage ==
  (Called("convertFromAttribute") /\ IsArrayDef(prop) /\ ~result.ok) => storage = prev

\* C3: Array convertFromAttribute applied, from a fresh empty storage, to Array
\* convertToAttribute(s) succeeds and yields s, same length and same order.
C3_ArrayAttributeRoundTrip ==
  (Called("convertFromAttribute") /\ IsArrayDef(prop) /\ prev = <<>>) =>
    \A s \in ValuesOf[prop] :
      attr = ConvertToAttribute(D.convertToAttribute, T, s) =>
        /\ result.ok
        /\ Len(storage) = Len(s)
        /\ \A i \in 1..Len(s) : storage[i] = s[i]

C3_Witness ==
  /\ prop = eArrOptI32
  /\ Called("convertFromAttribute")
  /\ prev = <<>>
  /\ attr = C1_Attr(Scenario)
  /\ result.ok
  /\ storage = Scenario

\* The elements of attribute list a, each converted by elem.convertFromAttribute.
C4_Converted(a) ==
  [i \in 1..Len(a[2]) |->
    ConvertFromAttribute(D.convertFromAttribute[3], T[2],
                         DeclValue(D.convertFromAttribute[2], CHOOSE j \in Junk : TRUE),
                         a[2][i], CHOOSE j \in Junk : TRUE).storage]

\* C4 (as claimed): after a successful Array convertFromAttribute the storage is exactly
\* the converted elements of the list, whatever the storage held before the call.
C4_ExactlyTheList ==
  (Called("convertFromAttribute") /\ IsArrayDef(prop) /\ result.ok) =>
    storage = C4_Converted(attr)

\* C4 (amended): after a successful Array convertFromAttribute the storage is what it
\* held before the call followed by the converted elements of the list in list order;
\* from an empty storage an empty list yields the empty sequence.
C4_AppendsTheList ==
  (Called("convertFromAttribute") /\ IsArrayDef(prop) /\ result.ok) =>
    /\ storage = prev \o C4_Converted(attr)
    /\ Len(storage) = Len(prev) + Len(attr[2])
    /\ (prev = <<>> /\ attr[2] = <<>>) => storage = <<>>

C4_Witness ==
  /\ Called("convertFromAttribute")
  /\ IsArrayDef(prop)
  /\ result.ok
  /\ prev # <<>>
  /\ attr[2] # <<>>

\* The property an Optional definition wraps, and its storage type.
P == Build(prop[2])

\* C5: Optional convertToAttribute maps absent to the empty list and present(v) to the
\* one-element list of p's attribute for v; convertFromAttribute maps the empty list
\* to absent and a one-element list to present of p's conversion of the element, and
\* fails with a diagnostic for a non-list attribute and for a list of more than one
\* element; so absent and present(v) round-trip.
C5_OptionalAttribute ==
  IsOptionalDef(prop) =>
    /\ Called("convertToAttribute") =>
         attr = IF storage = <<>> THEN ArrayAttr(<<>>)
                ELSE ArrayAttr(<<ConvertToAttribute(P.convertToAttribute, P.storageType,
                                                    storage[1])>>)
    /\ Called("convertFromAttribute") =>
         IF attr[1] # "ArrayAttr" THEN ~result.ok /\ result.diag # <<>>
         ELSE IF Len(attr[2]) > 1 THEN ~result.ok /\ result.diag # <<>>
         ELSE IF attr[2] = <<>> THEN result.ok /\ storage = <<>>
         ELSE \A junk \in Junk :
                LET r == ConvertFromAttribute(P.convertFromAttribute, P.storageType,
                                              DeclValue(makePropStorage(P, "presentVal"), junk),
                                              attr[2][1], junk)
                IN IF r.ok THEN result.ok /\ storage = <<r.storage>> ELSE ~result.ok
    /\ Called("convertFromAttribute") =>
         \A s \in ValuesOf[prop] :
           attr = ConvertToAttribute(D.convertToAttribute, T, s) =>
             result.ok /\ storage = s

C5_Witness ==
  /\ prop = eOptI32
  /\ Called("convertFromAttribute")
  /\ prev = <<>>
  /\ attr = ArrayAttr(<< <<"IntegerAttr", 3>> >>)
  /\ result.ok
  /\ storage = <<3>>

\* C6: Optional writeToMlirBytecode emits the presence boolean and then p's binary form
\* iff the value is present; readFromMlirBytecode reads the boolean first and p's
\* binary form only when it is true; read(write(x)) = x, and the reader consumes
\* exactly what the writer produced.
C6_OptionalBytecode ==
  IsOptionalDef(prop) =>
    /\ Called("writeToMlirBytecode") =>
         bytes = IF storage = <<>> THEN << <<"bool", FALSE>> >>
                 ELSE << <<"bool", TRUE>> >>
                        \o WriteToMlirBytecode(P.writeToMlirBytecode, P.storageType,
                                               storage[1])
    /\ Called("readFromMlirBytecode") =>
         IF ~ReaderHas(bytes, "bool") THEN ~result.ok /\ pos = 0
         ELSE IF ~bytes[1][2] THEN result.ok /\ storage = <<>> /\ pos = 1
         ELSE \A junk \in Junk :
                LET r == ReadFromMlirBytecode(P.readFromMlirBytecode, P.storageType,
                                              DeclValue(makePropStorage(P, "presentVal"), junk),
                                              Tail(bytes), junk)
                IN /\ result.ok = r.ok
                   /\ pos = Len(bytes) - Len(r.rest)
                   /\ r.ok => storage = <<r.storage>>
    /\ Called("readFromMlirBytecode") =>
         \A s \in ValuesOf[prop], tail \in Tails :
           LET w == WriteToMlirBytecode(D.writeToMlirBytecode, T, s)
           IN bytes = w \o tail => result.ok /\ storage = s /\ pos = Len(w)

C6_Witness ==
  /\ prop = eOptI32
  /\ Called("readFromMlirBytecode")
  /\ bytes = << <<"bool", TRUE>>, <<"varint", Pow2(Bits64) - 1>>, <<"varint", 1>> >>
  /\ result.ok
  /\ storage = <<-1>>
  /\ pos = 2

\* The property an Array definition holds the elements of.
Elem == Build(prop[2])

\* C7: Array writeToMlirBytecode emits the element count as a varint followed by each
\* element's binary form in storage order; readFromMlirBytecode into a fresh empty
\* storage is the inverse: read(write(s)) = s, same length and order.
C7_ArrayBytecode ==
  IsArrayDef(prop) =>
    /\ Called("writeToMlirBytecode") =>
         bytes = << <<"varint", Len(storage)>> >>
                   \o Flatten([i \in 1..Len(storage) |->
                        WriteToMlirBytecode(Elem.writeToMlirBytecode, Elem.storageType,
                                            storage[i])])
    /\ (Called("readFromMlirBytecode") /\ prev = <<>>) =>
         \A s \in ValuesOf[prop], tail \in Tails :
           LET w == WriteToMlirBytecode(D.writeToMlirBytecode, T, s)
           IN bytes = w \o tail =>
                /\ result.ok
                /\ Len(storage) = Len(s)
                /\ \A i \in 1..Len(s) : storage[i] = s[i]
                /\ pos = Len(w)

C7_Witness ==
  /\ prop = eArrOptI32
  /\ Called("readFromMlirBytecode")
  /\ prev = <<>>
  /\ bytes = C1_Bytes(Scenario)
  /\ result.ok
  /\ storage = Scenario

UsesDelegated(d) ==
  /\ d.parser[1] = "OptionalProp.delegatedParser"
  /\ d.optionalParser[1] = "OptionalProp.delegatedOptionalParser"
  /\ d.printer[1] = "OptionalProp.delegatedPrinter"

UsesGeneral(d) ==
  /\ d.parser[1] = "OptionalProp.generalParser"
  /\ d.optionalParser[1] = "OptionalProp.generalOptionalParser"
  /\ d.printer[1] = "OptionalProp.generalPrinter"

\* Optional(p, canDelegateParsing) is delegated iff p has no default value, p has an
\* optionalParser and canDelegateParsing is set, and general otherwise; parser,
\* optionalParser and printer come from the same strategy.
C8_Strategy ==
  /\ UsesDelegated(D) \/ UsesGeneral(D)
  /\ UsesDelegated(D) <=>
       (P.defaultValue = "" /\ P.optionalParser # NoCode /\ prop[3])

C9_OptionalSyntax ==
  (IsOptionalDef(prop) /\ Called("printer")) =>
    IF storage = <<>> THEN printed = <<Lit("none")>>
    ELSE LET inner == Printer(P.printer, P.storageType, storage[1])
         IN IF P.defaultValue = "" /\ P.optionalParser # NoCode /\ prop[3]
            THEN printed = inner
            ELSE printed = <<Lit("some<")>> \o inner \o <<Lit(">")>>

C9_Witness ==
  /\ prop = eOptI32
  /\ Called("printer")
  /\ storage = <<3>>
  /\ printed = << <<"int", 3>> >>

\* Every Optional definition inside e that delegates parsing has default std::nullopt.
RECURSIVE DelegationIsLegal(_)
DelegationIsLegal(e) ==
  CASE e[1] \in {"I32Prop", "I64Prop", "BoolProp", "UnitProp", "StringProp"} -> TRUE
    [] IsOptionalDef(e) ->
         /\ DelegationIsLegal(e[2])
         /\ UsesDelegated(Build(e)) => Build(e).defaultValue = "std::nullopt"
    [] OTHER -> DelegationIsLegal(e[2])

\* C10: every Optional definition that compiles satisfies the assertion: if it uses
\* delegated parsing its default value is std::nullopt; one that delegates with any
\* other default is rejected and no code of it runs.
C10_AssertHolds ==
  /\ status = "compiled" => DelegationIsLegal(prop)
  /\ ~DelegationIsLegal(prop) => (status # "compiled" /\ op = "none")
  /\ status = "rejected" =>
       op = "none" /\ attr = NoAttr /\ bytes = <<>> /\ printed = <<>>

C10_Witness ==
  /\ prop = <<"def OptionalProp", eI32, TRUE, "1">>
  /\ UsesDelegated(D)
  /\ D.defaultValue = "1"
  /\ status = "rejected"

(***************************************************************************)
(* Properties of the modifiers and of the predicates (VerifySpec)           *)
(***************************************************************************)
\* The interface value of the storage.
Iface == ConvertFromStorage(D.convertFromStorage, storage)

\* Some verdict of pred on v is true.
Holds(pred, v) == \E r \in EvalPred(pred, v, TRUE) : r.val

\* C11: the predicate of ConfinedProp<p, extra> holds for an interface value iff p's
\* predicate and extra hold for it, and is extra itself when p's predicate is TruePred;
\* ConfinedProp<ConfinedProp<p, a>, b> and ConfinedProp<ConfinedProp<p, b>, a> accept the
\* same values; ConstantProp<p, literal> accepts v iff p's predicate holds for v and v is
\* the literal; ConfinedProp<I64Prop, "$_self > 0"> holds for 5 and fails for -1 and 0.
C11_ConfinedPredicate ==
  /\ (Called("predicate") /\ prop[1] = "ConfinedProp") =>
       /\ result.ok <=> (Holds(Build(prop[2]).predicate, Iface) /\ Holds(prop[3], Iface))
       /\ (Build(prop[2]).predicate = TruePred) => (D.predicate = prop[3])
       /\ (prop[2][1] = "ConfinedProp") =>
            LET swapped == <<"ConfinedProp",
                             <<"ConfinedProp", prop[2][2], prop[3], "">>, prop[2][3], "">>
            IN result.ok <=> Holds(Build(swapped).predicate, Iface)
  /\ (Called("predicate") /\ prop[1] = "ConstantProp") =>
       (result.ok <=> (/\ Holds(Build(prop[2]).predicate, Iface)
                       /\ Iface = EvalInit(D.interfaceType, prop[3])))
  /\ (Called("predicate") /\ prop = eConfI64 /\ storage \in {5, -1, 0}) =>
       (result.ok <=> (storage = 5))

\* ConfinedProp<ConfinedProp<I64Prop, "< 5">, "> 0"> was evaluated on 3 and accepted it.
C11_Witness ==
  /\ Called("predicate")
  /\ prop = <<"ConfinedProp", <<"ConfinedProp", eI64, BelowFivePred, "">>, PositivePred, "">>
  /\ storage = 3
  /\ result.ok

\* The definition under study is a modifier applied to a definition, and is compiled.
IsModifier == prop[1] \in {"DefaultValuedProp", "ConfinedProp", "ConstantProp"}
Wrapped == Build(prop[2])

\* The fields every modifier takes from the wrapped property.
Forwarded ==
  { "storageType", "interfaceType", "convertFromStorage", "assignToStorage",
    "convertToAttribute", "convertFromAttribute", "hashProperty", "parser",
    "optionalParser", "printer", "readFromMlirBytecode", "writeToMlirBytecode" }

\* C12: DefaultValuedProp, ConfinedProp and ConstantProp take storageType, interfaceType,
\* convertFromStorage, assignToStorage, convertToAttribute, convertFromAttribute,
\* hashProperty, parser, optionalParser, printer, readFromMlirBytecode and
\* writeToMlirBytecode from the wrapped property p unchanged, and baseProperty is p;
\* ConfinedProp and ConstantProp also keep p's defaultValue and
\* storageTypeValueOverride, and DefaultValuedProp keeps p's predicate.
C12_ModifiersForward ==
  (status = "compiled" /\ IsModifier) =>
    /\ \A f \in Forwarded : D[f] = Wrapped[f]
    /\ D.baseProperty = Wrapped
    /\ (prop[1] \in {"ConfinedProp", "ConstantProp"}) =>
         /\ D.defaultValue = Wrapped.defaultValue
         /\ D.storageTypeValueOverride = Wrapped.storageTypeValueOverride
    /\ (prop[1] = "DefaultValuedProp") => (D.predicate = Wrapped.predicate)

\* A DefaultValuedProp of an optional array, none of whose fragments is the base
\* default, was compiled and its storage constructed.
C12_Witness ==
  /\ Called("construct")
  /\ prop = <<"DefaultValuedProp", <<"OptionalProp", <<"ArrayProp", eI32>>, TRUE>>, "", "">>
  /\ \A f \in Forwarded \ {"storageType", "interfaceType"} :
       Wrapped[f] # Property(Wrapped.storageType, "", Wrapped.interfaceType)[f]

\* C13 (as claimed): DefaultValuedProp<p, value> built without a storage initializer has
\* defaultValue = value and every other field equal to p's, storageTypeValueOverride
\* included (baseProperty, which names p, aside).
C13_IdenticalExceptDefault ==
  (status = "compiled" /\ prop[1] = "DefaultValuedProp" /\ prop[4] = "") =>
    /\ D.defaultValue = prop[3]
    /\ \A f \in DOMAIN D \ {"defaultValue", "baseProperty"} : D[f] = Wrapped[f]

(***************************************************************************)
(* Properties of the primitive kinds (Spec)                                 *)
(***************************************************************************)
\* C14: for I32Prop and I64Prop, writeToMlirBytecode writes the storage value v as one
\* varint holding v converted to uint64_t, and readFromMlirBytecode of what was written
\* for v succeeds with storage v, for every v of the type, negative values, the minimum
\* and the maximum included; for BoolProp, reading what was written for b gives b.
C14_IntegerBytecodeRoundTrip ==
  /\ (Called("writeToMlirBytecode") /\ prop \in {eI32, eI64}) =>
       /\ Len(bytes) = 1 /\ bytes[1][1] = "varint"
       /\ bytes[1][2] \in 0 .. (Pow2(Bits64) - 1)
       /\ (bytes[1][2] - storage) % Pow2(Bits64) = 0
  /\ (Called("readFromMlirBytecode") /\ prop \in {eI32, eI64, eBool}) =>
       \A v \in ValuesOf[prop] :
         (bytes # <<>> /\ bytes[1] = WriteToMlirBytecode(D.writeToMlirBytecode, T, v)[1]) =>
           (result.ok /\ storage = v /\ pos = 1)

\* The minimum of int32_t was read back from its varint.
C14_Witness ==
  /\ Called("readFromMlirBytecode")
  /\ prop = eI32
  /\ result.ok
  /\ storage = 0 - Pow2(Bits32 - 1)
  /\ bytes[1] = <<"varint", Pow2(Bits64) - Pow2(Bits32 - 1)>>

\* C15: UnitProp.convertToAttribute gives UnitAttr for true and BoolAttr false for false;
\* convertFromAttribute of either succeeds and gives the value back; on an attribute
\* that is neither a UnitAttr nor a BoolAttr it fails and leaves the storage as it was.
C15_UnitAttribute ==
  /\ (Called("convertToAttribute") /\ prop = eUnit) =>
       (attr = IF storage THEN <<"UnitAttr">> ELSE <<"BoolAttr", FALSE>>)
  /\ (Called("convertFromAttribute") /\ prop = eUnit) =>
       /\ \A v \in BOOLEAN :
            (attr = ConvertToAttribute(D.convertToAttribute, T, v)) =>
              (result.ok /\ storage = v)
       /\ (attr[1] \notin {"UnitAttr", "BoolAttr"}) => (~result.ok /\ storage = prev)

\* The attribute of false was converted into a storage that held true.
C15_Witness ==
  /\ Called("convertFromAttribute")
  /\ prop = eUnit
  /\ attr = <<"BoolAttr", FALSE>>
  /\ prev = TRUE
  /\ result.ok
  /\ storage = FALSE

(***************************************************************************)
(* Properties of the predicates of the containers (VerifySpec)              *)
(***************************************************************************)
\* C17: the predicate of ArrayProp<elem> is TruePred when elem's predicate is TruePred;
\* otherwise it holds for a sequence iff elem's predicate holds on every stored element
\* converted with elem.convertFromStorage: it holds for the empty sequence and fails
\* when one element fails.
C17_ArrayPredicate ==
  /\ (status = "compiled" /\ IsArrayDef(prop)) =>
       ((Elem.predicate = TruePred) <=> (D.predicate = TruePred))
  /\ (Called("predicate") /\ IsArrayDef(prop) /\ Elem.predicate # TruePred) =>
       (result.ok <=>
          \A i \in 1..Len(storage) :
            Holds(Elem.predicate, ConvertFromStorage(Elem.convertFromStorage, storage[i])))
  /\ (Called("predicate") /\ IsArrayDef(prop) /\ storage = <<>>) => result.ok

\* An array whose second element fails the element predicate was rejected.
C17_Witness ==
  /\ Called("predicate")
  /\ prop = <<"ArrayProp", eConfI64>>
  /\ storage = <<3, -1>>
  /\ ~result.ok

\* C18: the predicate of OptionalProp<p> is TruePred when p's predicate is TruePred;
\* otherwise it holds for an absent value without p's predicate reading the value
\* of the absent optional, and it holds for a present value iff p's predicate holds
\* for the value.
C18_OptionalPredicate ==
  /\ (status = "compiled" /\ IsOptionalDef(prop)) =>
       ((P.predicate = TruePred) <=> (D.predicate = TruePred))
  /\ (Called("predicate") /\ IsOptionalDef(prop) /\ P.predicate # TruePred) =>
       /\ ~result.ub
       /\ (Iface = <<>>) => result.ok
       /\ (Iface # <<>>) => (result.ok <=> Holds(P.predicate, Iface[1]))

\* The predicate of an optional of a confined integer was evaluated on the absent value.
C18_Witness ==
  /\ Called("predicate")
  /\ prop = eOptConfI64
  /\ storage = <<>>
  /\ result.ok
  /\ ~result.ub

(***************************************************************************)
(* Properties of the textual form (ParseSpec)                               *)
(***************************************************************************)
\* The first token handed to the parser is one of the keywords.
FirstIsKeyword(words) == ParseOptionalKeyword(tokens, words)

\* C16: UnitProp, whose default value is false, always prints a token, `unit` for true
\* and `unit_absent` for false; its parser takes exactly these two keywords and sets the
\* storage to true for `unit` and to false for `unit_absent`, so that parsing what was
\* printed for v gives v; on any other input the parser fails with the error
\* "expected 'unit' or 'unit_absent'".
C16_UnitSyntax ==
  /\ (status = "compiled" /\ prop = eUnit) => (D.defaultValue = "false")
  /\ (Called("printer") /\ prop = eUnit) =>
       (printed = <<Lit(IF storage THEN "unit" ELSE "unit_absent")>>)
  /\ (Called("parser") /\ prop = eUnit) =>
       /\ FirstIsKeyword({"unit", "unit_absent"}) =>
            (result.ok /\ pos = 1 /\ storage = (tokens[1][2] = "unit"))
       /\ ~FirstIsKeyword({"unit", "unit_absent"}) =>
            (~result.ok /\ result.diag = <<"expected 'unit' or 'unit_absent'">>)
       /\ \A v \in BOOLEAN :
            (tokens = Lex(Printer(D.printer, T, v))) => (result.ok /\ storage = v)

\* `unit_absent` was parsed into a storage that held true.
C16_Witness ==
  /\ Called("parser")
  /\ prop = eUnit
  /\ prev = TRUE
  /\ tokens = << <<"kw", "unit_absent">> >>
  /\ result.ok
  /\ storage = FALSE

\* The token stream begins with the tokens of w.
StartsWith(stream, w) ==
  /\ Len(w) <= Len(stream)
  /\ \A i \in 1..Len(w) : stream[i][1] = w[i][1] /\ stream[i][2] = w[i][2]

\* The printed form of the list v of the array definition prop.
Written(v) == Lex(Printer(D.printer, T, v))

\* The lists whose printed form the token stream begins with.
ListsRead == { v \in ParsedValues(prop) : StartsWith(tokens, Written(v)) }

\* C19: the optional parser of ArrayProp has three outcomes.  When the next token is not
\* an opening bracket it reports the absent outcome, the position has not moved and the
\* storage is unchanged; when a bracketed list, the empty list `[]` included, is read it
\* reports success, and the storage is what it was followed by the elements in the order
\* they were written; when the bracketed list or one of its elements does not parse it
\* reports failure.
C19_ArrayOptionalParser ==
  (Called("optionalParser") /\ prop[1] = "ArrayProp") =>
    /\ result.res \in {"nullopt", "success", "failure"}
    /\ ~NextIs(tokens, "punct", "[") =>
         (result.res = "nullopt" /\ pos = 0 /\ storage = prev)
    /\ \A v \in ListsRead :
         (result.res = "success" /\ pos = Len(Written(v)) /\ storage = prev \o v)
    /\ (NextIs(tokens, "punct", "[") /\ ListsRead = {}) => (result.res = "failure")

\* Two different elements were appended, in the order written, to a storage that held one.
C19_Witness ==
  /\ Called("optionalParser")
  /\ prop = <<"ArrayProp", eI32>>
  /\ Len(prev) = 1
  /\ result.res = "success"
  /\ Len(storage) = 3
  /\ storage[2] # storage[3]
  /\ storage[2] # prev[1]
  /\ tokens[2][2] = storage[2]

\* The empty list `[]` was read: success, not the absent outcome.
C19_WitnessEmptyList ==
  /\ Called("optionalParser")
  /\ prop = <<"ArrayProp", eI32>>
  /\ NextIs(tokens, "punct", "[")
  /\ pos = 2
  /\ result.res = "success"
  /\ storage = prev

\* An element of the list did not parse.
C19_WitnessFailure ==
  /\ Called("optionalParser")
  /\ prop[1] = "ArrayProp"
  /\ NextIs(tokens, "punct", "[")
  /\ result.res = "failure"
  /\ Len(tokens) >= 3

(***************************************************************************)
(* OptionalProp on its own: the optional definitions of Schema are          *)
(* compiled, constructed, assigned, and converted, read and parsed.         *)
(***************************************************************************)
OptionalSchema == { e \in Schema : IsOptionalDef(e) }

OptionalInit ==
  /\ NoDriver
  /\ prop \in OptionalSchema
  /\ status = "declared"
  /\ storage = <<>>
  /\ op = "none"
  /\ attr = NoAttr
  /\ bytes = <<>>
  /\ pos = 0
  /\ printed = <<>>
  /\ result = Ok
  /\ prev = <<>>
  /\ tokens = <<>>

OptionalNext ==
  \/ Compile
  \/ Construct
  \/ CallAssignToStorage
  \/ CallConvertFromAttribute
  \/ CallReadFromMlirBytecode
  \/ CallParser
  \/ CallOptionalParser

OptionalSpec == OptionalInit /\ [][OptionalNext]_vars

\* The call followed last reported failure.
Failed ==
  IF op \in {"parser", "optionalParser"} THEN result.res = "failure"
  ELSE IF op \in {"convertFromAttribute", "readFromMlirBytecode"} THEN ~result.ok
  ELSE FALSE

\* The text is `some`, with or without `<`, and then something that is not p between
\* `<` and `>`.
SomeWithout(punct) ==
  /\ NextIs(tokens, "kw", "some")
  /\ IF punct = "<" THEN ~NextIs(Tail(tokens), "punct", "<")
     ELSE /\ NextIs(Tail(tokens), "punct", "<")
          /\ ~NextIs(SubSeq(tokens, pos + 1, Len(tokens)), "punct", ">")
          /\ pos >= 3

\* C20: OptionalProp commits last.  On every failing path of its convertFromAttribute,
\* readFromMlirBytecode, parser and optionalParser (an attribute that is not a list, a
\* list of more than one element, a presence flag that cannot be read, the failure of
\* p's own conversion, read or parse, a missing `<` or `>`) the call reports failure
\* and the storage holds what it held before the call; the storage is assigned only
\* once the inner value is complete, so after a call it is its old value, absent, or
\* one complete value of p.
C20_OptionalAbortBeforeCommit ==
  IsOptionalDef(prop) =>
    /\ Failed => (storage = prev)
    /\ Called("convertFromAttribute") =>
         /\ (attr[1] # "ArrayAttr") => Failed
         /\ (attr[1] = "ArrayAttr" /\ Len(attr[2]) > 1) => Failed
    /\ (Called("readFromMlirBytecode") /\ bytes = <<>>) => Failed
    /\ ((Called("parser") \/ Called("optionalParser"))
          /\ D.parser[1] = "OptionalProp.generalParser") =>
         /\ SomeWithout("<") => Failed
         /\ (NextIs(tokens, "kw", "some") /\ ~Failed) =>
              (NextIs(SubSeq(tokens, pos, Len(tokens)), "punct", ">") /\ Len(storage) = 1)
    /\ (op \in {"convertFromAttribute", "readFromMlirBytecode", "parser",
                  "optionalParser"}) =>
         \/ storage = prev
         \/ storage = <<>>
         \/ Len(storage) = 1 /\ storage \in ValuesOf[prop]

\* The closing `>` is missing after a complete inner value that differs from the value
\* the storage holds: the parser fails and the storage keeps its value.
C20_Witness ==
  /\ Called("parser")
  /\ prop = <<"OptionalProp", eI32, FALSE>>
  /\ Len(prev) = 1
  /\ Len(tokens) = 3
  /\ NextIs(tokens, "kw", "some")
  /\ tokens[3][1] = "int"
  /\ tokens[3][2] # prev[1]
  /\ Failed
  /\ storage = prev

\* The optional parsers whose code returns std::nullopt itself.
DecidesAbsence ==
  D.optionalParser[1] \in {"UnitProp.optionalParser", "ArrayProp.optionalParser",
                            "OptionalProp.delegatedOptionalParser",
                            "OptionalProp.generalOptionalParser"}

\* C21: an optional parser of UnitProp, ArrayProp or OptionalProp (delegated or general)
\* that reports that nothing was parsed has not set the storage: the storage holds the
\* value it had on entry, and no token was consumed.
C21_AbsentLeavesStorage ==
  (Called("optionalParser") /\ DecidesAbsence /\ result.res = "nullopt") =>
    (storage = prev /\ pos = 0)

\* Nothing was parsed into a storage that held true.
C21_Witness ==
  /\ Called("optionalParser")
  /\ prop = eUnit
  /\ result.res = "nullopt"
  /\ prev = TRUE
  /\ storage = TRUE

\* The token stream is exactly w.
IsText(w) == Len(tokens) = Len(w) /\ StartsWith(tokens, w)

\* C24: in both strategies the parser of OptionalProp reads back what its printer wrote:
\* for absent and for every present(v), the parser run on the printed form succeeds,
\* consumes all of it and stores that value, whatever the storage held.  The optional
\* parser does the same.  Optional(Optional(p)) prints absent as `none` and
\* present(absent) as `some<none>`, and the two are parsed back to different values.
C24_OptionalRoundTrip ==
  /\ (IsOptionalDef(prop) /\ (Called("parser") \/ Called("optionalParser"))) =>
       \A v \in ParsedValues(prop) :
         IsText(Written(v)) => (result.ok /\ pos = Len(tokens) /\ storage = v)
  /\ (IsOptionalDef(prop) /\ IsOptionalDef(prop[2]) /\ Called("printer")) =>
       /\ (storage = <<>>) => (printed = <<Lit("none")>>)
       /\ (storage = << <<>> >>) => (printed = <<Lit("some<"), Lit("none"), Lit(">")>>)
  /\ (IsOptionalDef(prop) /\ IsOptionalDef(prop[2]) /\ Called("parser")) =>
       /\ IsText(<< <<"kw", "none">> >>) => (result.ok /\ storage = <<>>)
       /\ IsText(<< <<"kw", "some">>, <<"punct", "<">>, <<"kw", "none">>,
                    <<"punct", ">">> >>) => (result.ok /\ storage = << <<>> >>)

\* `some<none>` was parsed into an absent Optional(Optional(I32)): present(absent).
C24_Witness ==
  /\ Called("parser")
  /\ prop = <<"OptionalProp", eOptI32, TRUE>>
  /\ prev = <<>>
  /\ Len(tokens) = 4
  /\ NextIs(tokens, "kw", "some")
  /\ NextIs(SubSeq(tokens, 3, 4), "kw", "none")
  /\ result.ok
  /\ storage = << <<>> >>

\* The initializer the claim gives the slot of wrapped property p; "" is none.
Seed(p) ==
  IF p.storageTypeValueOverride # "" THEN p.storageTypeValueOverride
  ELSE IF p.defaultValue # "" THEN p.defaultValue
  ELSE ""

\* The declaration of the slot `name` of the wrapped property of prop.
Slot(name) == [type |-> Wrapped.storageType, name |-> name, init |-> Seed(Wrapped)]

\* C26: the slot a container declares for its wrapped property, elemVal in ArrayProp's
\* convertFromAttribute, parsers and readFromMlirBytecode, presentVal in OptionalProp's
\* assignToStorage (when it has one of its own), convertFromAttribute, parsers and
\* readFromMlirBytecode, is of the wrapped storage type and is initialized with the
\* wrapped property's storageTypeValueOverride if that is not empty, otherwise with its
\* defaultValue if that is not empty, and otherwise has no initializer.
C26_SlotIsSeeded ==
  /\ (status = "compiled" /\ IsArrayDef(prop)) =>
       /\ D.convertFromAttribute[2] = Slot("elemVal")
       /\ D.parser[2][1] = Slot("elemVal")
       /\ D.optionalParser[2][1] = Slot("elemVal")
       /\ D.readFromMlirBytecode[2] = Slot("elemVal")
  /\ (status = "compiled" /\ IsOptionalDef(prop)) =>
       /\ D.convertFromAttribute[2] = Slot("presentVal")
       /\ D.parser[2][1] = Slot("presentVal")
       /\ D.optionalParser[2][1] = Slot("presentVal")
       /\ D.readFromMlirBytecode[2] = Slot("presentVal")
       /\ (D.assignToStorage[1] = "OptionalProp.assignToStorage") =>
            (D.assignToStorage[2] = Slot("presentVal"))

\* The wrapped property has default value 0 and storage initializer 1: the slot
\* starts from 1.
C26_Witness ==
  /\ status = "compiled"
  /\ prop = <<"ArrayProp", eDefI32>>
  /\ Wrapped.defaultValue = "0"
  /\ Wrapped.storageTypeValueOverride = "1"
  /\ D.convertFromAttribute[2].init = "1"
  /\ DeclValue(D.parser[2][1], [int |-> 0, bool |-> FALSE]) = 1

(***************************************************************************)
(* The multi-debugger test driver (multi-process-driver.cpp)                *)
(*                                                                         *)
(*   threads[t]   where worker t is in do_one_debugger:                     *)
(*                "launching"       before the first wait_for_stop_event    *)
(*                "wait foo"        in the wait before the stop at foo      *)
(*                "wait bar"        in the wait after process.Continue()    *)
(*                "wait kill"       in the wait after process.Kill()        *)
(*                "successful set"  between lines 197 and 198               *)
(*                "returned"        after its return                        *)
(*                "exit(1)"         it ended the process with exit (1)      *)
(*   main         "sleep" at the top of an iteration of the polling loop,   *)
(*                "counted" between the two counts, "exit(0)", "_exit(1)"   *)
(*   exit_status  the exit status of the process, -1 while it runs          *)
(*   stdout       what main has printed                                     *)
(***************************************************************************)
\* Worker threads; 10 in the source.
NUMBER_OF_SIMULTANEOUS_DEBUG_SESSIONS == 3
\* Polling iterations before the time limit; 40 in the source.
MaxTimeToWait == 2
\* max_time_to_wait *= 4 when ASAN_OPTIONS is set.
AsanFactor == 4

Threads == 0 .. (NUMBER_OF_SIMULTANEOUS_DEBUG_SESSIONS - 1)

Running == exit_status = -1 /\ main \in {"sleep", "counted"}

\* completed_threads_array[threadnum] = true; return
Return(t) ==
  /\ completed_threads_array' = [completed_threads_array EXCEPT ![t] = TRUE]
  /\ threads' = [threads EXCEPT ![t] = "returned"]
  /\ UNCHANGED <<successful_threads_array, exit_status>>

\* exit (1) called by worker t.
WorkerExit(t) ==
  /\ exit_status' = 1
  /\ threads' = [threads EXCEPT ![t] = "exit(1)"]
  /\ UNCHANGED <<completed_threads_array, successful_threads_array>>

\* The worker goes on to its next wait_for_stop_event.
Proceed(t, to) ==
  /\ threads' = [threads EXCEPT ![t] = to]
  /\ UNCHANGED <<completed_threads_array, successful_threads_array, exit_status>>

\* do_one_debugger up to the first wait: debugger, target, breakpoints, launch,
\* listener.  What lldb answers is not decided by the driver.
Launch(t) ==
  /\ Running
  /\ threads[t] = "launching"
  /\ \E answer \in {"no debugger", "no target", "no breakpoint on bar", "no process",
                     "adding listener failed", "launched"} :
       IF answer \in {"no debugger", "no target", "no process"} THEN Return(t)
       ELSE IF answer \in {"no breakpoint on bar", "adding listener failed"}
       THEN WorkerExit(t)
       ELSE Proceed(t, "wait foo")
  /\ UNCHANGED <<main, iter, max_time_to_wait, total_completed_threads,
                 successful_threads, stdout>>
  /\ UNCHANGED property

\* The first wait_for_stop_event returns (a stop event was delivered); the backtrace
\* and the function name are checked and the process is continued.
StopAtFoo(t) ==
  /\ Running
  /\ threads[t] = "wait foo"
  /\ \E answer \in {"backtrace failed", "not at foo", "at foo"} :
       IF answer = "at foo" THEN Proceed(t, "wait bar") ELSE Return(t)
  /\ UNCHANGED <<main, iter, max_time_to_wait, total_completed_threads,
                 successful_threads, stdout>>
  /\ UNCHANGED property

\* The second wait_for_stop_event returns; the state, the backtrace and the function
\* name are checked and the process is killed.
StopAtBar(t) ==
  /\ Running
  /\ threads[t] = "wait bar"
  /\ \E answer \in {"process exited", "backtrace failed", "not at bar", "at bar"} :
       IF answer = "at bar" THEN Proceed(t, "wait kill") ELSE Return(t)
  /\ UNCHANGED <<main, iter, max_time_to_wait, total_completed_threads,
                 successful_threads, stdout>>
  /\ UNCHANGED property

\* The third wait_for_stop_event returns; the debugger is destroyed and
\* successful_threads_array[threadnum] is set.
StopAfterKill(t) ==
  /\ Running
  /\ threads[t] = "wait kill"
  /\ successful_threads_array' = [successful_threads_array EXCEPT ![t] = TRUE]
  /\ threads' = [threads EXCEPT ![t] = "successful set"]
  /\ UNCHANGED <<completed_threads_array, exit_status>>
  /\ UNCHANGED <<main, iter, max_time_to_wait, total_completed_threads,
                 successful_threads, stdout>>
  /\ UNCHANGED property

\* Line 198 and the return of the successful worker.
MarkCompleted(t) ==
  /\ Running
  /\ threads[t] = "successful set"
  /\ Return(t)
  /\ UNCHANGED <<main, iter, max_time_to_wait, total_completed_threads,
                 successful_threads, stdout>>
  /\ UNCHANGED property

count_completed_threads(num_threads) ==
  Cardinality({ i \in 0 .. (num_threads - 1) : completed_threads_array[i] })

count_successful_threads(num_threads) ==
  Cardinality({ i \in 0 .. (num_threads - 1) : successful_threads_array[i] })

\* The loop condition holds; sleep_for, then count_successful_threads.
CountSuccessfulThreads ==
  /\ exit_status = -1
  /\ main = "sleep"
  /\ iter < max_time_to_wait
  /\ successful_threads' = count_successful_threads(NUMBER_OF_SIMULTANEOUS_DEBUG_SESSIONS)
  /\ main' = "counted"
  /\ UNCHANGED <<completed_threads_array, successful_threads_array, threads, iter,
                 max_time_to_wait, total_completed_threads, stdout, exit_status>>
  /\ UNCHANGED property

\* The message of line 293.
TimeoutMessage(completed, successful) ==
  <<"reached maximum timeout but only", completed, "threads have completed so far",
    successful, "successfully">>

\* The loop body without ++iter.
CountCompletedThreads_noIncrement ==
  /\ exit_status = -1
  /\ main = "counted"
  /\ LET total == count_completed_threads(NUMBER_OF_SIMULTANEOUS_DEBUG_SESSIONS)
     IN /\ total_completed_threads' = total
        /\ IF total = NUMBER_OF_SIMULTANEOUS_DEBUG_SESSIONS
           THEN /\ main' = "exit(0)"
                /\ exit_status' = 0
           ELSE /\ main' = "sleep"
                /\ UNCHANGED exit_status
  /\ UNCHANGED <<completed_threads_array, successful_threads_array, threads, iter,
                 stdout, max_time_to_wait, successful_threads>>
  /\ UNCHANGED property

\* count_completed_threads and the rest of the loop body: exit(0) when every worker
\* is counted, otherwise the test of iter for the message, and ++iter.
CountCompletedThreads ==
  /\ exit_status = -1
  /\ main = "counted"
  /\ LET total == count_completed_threads(NUMBER_OF_SIMULTANEOUS_DEBUG_SESSIONS)
     IN /\ total_completed_threads' = total
        /\ IF total = NUMBER_OF_SIMULTANEOUS_DEBUG_SESSIONS
           THEN /\ main' = "exit(0)"
                /\ exit_status' = 0
                /\ UNCHANGED <<iter, stdout>>
           ELSE /\ stdout' = IF iter = max_time_to_wait
                             THEN Append(stdout, TimeoutMessage(total, successful_threads))
                             ELSE stdout
                /\ iter' = iter + 1
                /\ main' = "sleep"
                /\ UNCHANGED exit_status
  /\ UNCHANGED <<completed_threads_array, successful_threads_array, threads,
                 max_time_to_wait, successful_threads>>
  /\ UNCHANGED property

\* The loop condition fails: _exit(1).
TimeLimit ==
  /\ exit_status = -1
  /\ main = "sleep"
  /\ ~(iter < max_time_to_wait)
  /\ main' = "_exit(1)"
  /\ exit_status' = 1
  /\ UNCHANGED <<completed_threads_array, successful_threads_array, threads, iter,
                 max_time_to_wait, total_completed_threads, successful_threads, stdout>>
  /\ UNCHANGED property

\* main up to the polling loop: the arrays are zeroed, the threads are created and
\* max_time_to_wait is set, four times as large when ASAN_OPTIONS is in the environment.
DriverInit ==
  /\ completed_threads_array = [t \in Threads |-> FALSE]
  /\ successful_threads_array = [t \in Threads |-> FALSE]
  /\ threads = [t \in Threads |-> "launching"]
  /\ main = "sleep"
  /\ iter = 0
  /\ \E asan \in BOOLEAN :
       max_time_to_wait = IF asan THEN MaxTimeToWait * AsanFactor ELSE MaxTimeToWait
  /\ total_completed_threads = 0
  /\ successful_threads = 0
  /\ stdout = <<>>
  /\ exit_status = -1
  /\ prop = eI32
  /\ status = "declared"
  /\ storage = <<>>
  /\ op = "none"
  /\ attr = NoAttr
  /\ bytes = <<>>
  /\ pos = 0
  /\ printed = <<>>
  /\ result = Ok
  /\ prev = <<>>
  /\ tokens = <<>>

DriverNext ==
  \/ \E t \in Threads : Launch(t)
  \/ \E t \in Threads : StopAtFoo(t)
  \/ \E t \in Threads : StopAtBar(t)
  \/ \E t \in Threads : StopAfterKill(t)
  \/ \E t \in Threads : MarkCompleted(t)
  \/ CountSuccessfulThreads
  \/ CountCompletedThreads
  \/ TimeLimit

DriverSpec == DriverInit /\ [][DriverNext]_vars

\* sleep_for returns and main is scheduled; a worker may wait for ever.
DriverLiveSpec ==
  DriverSpec /\ WF_vars(CountSuccessfulThreads) /\ WF_vars(CountCompletedThreads)
    /\ WF_vars(TimeLimit)

(***************************************************************************)
(* Properties of the test driver (DriverSpec, DriverLiveSpec)               *)
(***************************************************************************)
\* Every worker has returned after setting its successful flag.
AllSuccessful ==
  \A t \in Threads :
    threads[t] = "returned" /\ successful_threads_array[t] /\ completed_threads_array[t]

\* C22 (as claimed): the process exits with status 0 only when every worker has
\* completed successfully; if a worker completed without success or did not complete,
\* the exit status is not 0.
C22_ExitZeroOnlyIfAllSuccessful ==
  (exit_status = 0) => AllSuccessful

\* The main thread has left main.
MainExited == main \in {"exit(0)", "_exit(1)"}

\* A worker ended the process with exit (1).
WorkerExited == \E t \in Threads : threads[t] = "exit(1)"

\* How main leaves: within max_time_to_wait iterations, with status 0 in the iteration
\* in which it counts every worker as completed, with status 1 when the iterations are
\* used up.
MainExitsInTime ==
  /\ iter <= max_time_to_wait
  /\ (main = "exit(0)") =>
       /\ exit_status = 0
       /\ iter < max_time_to_wait
       /\ total_completed_threads = NUMBER_OF_SIMULTANEOUS_DEBUG_SESSIONS
  /\ (main = "_exit(1)") =>
       /\ exit_status = 1
       /\ iter = max_time_to_wait
       /\ total_completed_threads < NUMBER_OF_SIMULTANEOUS_DEBUG_SESSIONS

\* C23 (as claimed): under any interleaving, workers that wait for ever included, the
\* main thread exits after at most max_time_to_wait polling iterations, with status 0
\* in the first iteration in which it sees every completed flag set, or with status 1
\* once the time limit is exceeded.
C23_MainAlwaysExits == <>MainExited /\ []MainExitsInTime

\* C23: under any interleaving, workers that wait for ever included, the process
\* terminates within max_time_to_wait polling iterations of main: main exits with
\* status 0 in the first iteration in which it sees every completed flag set, or with
\* status 1 once the time limit is exceeded, or a worker that cannot set the breakpoint
\* on bar or add its listener ends the process with exit (1) before that.
C23_DriverTerminates ==
  /\ <>(exit_status # -1)
  /\ [](MainExitsInTime
          /\ ((exit_status # -1) => (MainExited \/ (WorkerExited /\ exit_status = 1)))
          /\ ((exit_status = -1) => ~MainExited /\ ~WorkerExited))

\* A worker is still waiting for a stop event when main gives up at the time limit.
C23_Witness ==
  /\ main = "_exit(1)"
  /\ exit_status = 1
  /\ iter = max_time_to_wait
  /\ \E t \in Threads : threads[t] \in {"wait foo", "wait bar", "wait kill"}

\* The timeout message is on stdout.
PrintedTimeout ==
  \E i \in 1 .. Len(stdout) : stdout[i][1] = "reached maximum timeout but only"

\* C25 (as claimed): when the time limit is reached while fewer than all workers have
\* completed, main has printed 'reached maximum timeout but only N threads have
\* completed so far ...' before it exits with status 1.
C25_TimeoutIsReported ==
  (main = "_exit(1)"
     /\ total_completed_threads < NUMBER_OF_SIMULTANEOUS_DEBUG_SESSIONS) => PrintedTimeout

====
